---- MODULE Spec2Model ----
(***************************************************************************)
(* Model of the SPARQL ingest processor (sparql-ingest-processor-ts).      *)
(*                                                                         *)
(* The repository holds three variants of the record loop:                 *)
(*   "sparqlIngest" : src/src/SPARQLIngest.ts   (function sparqlIngest)    *)
(*   "transform2"   : src/unnamed/part_002      (class, memberShapes)      *)
(*   "transform3"   : src/unnamed/part_003:1-477 (class, operationMode)    *)
(* The variant is part of the configuration chosen in Init; each variant   *)
(* has its own action.  A store is the set of its quads <<s, p, o, g>>;    *)
(* a query is the sequence of its statements.                              *)
(***************************************************************************)
EXTENDS Integers, Sequences, FiniteSets, TLC

\* Number of records the member stream delivers before it ends.
MaxRecords == 3
\* Size of the stores splitStore is called with, and the largest threshold.
MaxQuads == 4
MaxThreshold == 3
\* Number of member IRIs DELETE is called with.
MaxDeleteMembers == 2

-----------------------------------------------------------------------------
(* Terms *)

SDS_stream == "sds:stream"
SDS_payload == "sds:payload"
SDS_DataDescription == "sds:DataDescription"
DefaultGraph == ""
Undefined == "undefined"

\* The configured paths and sentinel values (tests/SPARQLIngest.test.ts).
transactionIdPath == "ldes:transactionId"
transactionEndPath == "ldes:isLastOfTransaction"
changeTypePath == "ex:changeType"
createValue == "ex:Create"
updateValue == "ex:Update"
deleteValue == "ex:Delete"
otherValue == "ex:Archive"
TargetGraph == "ex:targetGraph"
OtherSubject == "ex:other"

NoTx == "none"
TxIds == {"transact_1", "transact_2"}
NoChange == "none"
ChangeValues == {createValue, updateValue, deleteValue, otherValue}

\* The member IRI of the n-th record of the stream.
MemberOf(n) == <<"ex:Entity_1", "ex:Entity_2", "ex:Entity_3", "ex:Entity_4", "ex:Entity_5">>[n]

-----------------------------------------------------------------------------
(* Records of the member stream.  A record descriptor r stands for the     *)
(* serialized record; Parse(r) is the quad set new Parser().parse yields.  *)
(*   r.n      position in the stream (its member is MemberOf(r.n))         *)
(*   r.sds    the record has the SDS wrapper (graph sds:DataDescription)   *)
(*   r.tx     the transaction id literal, or NoTx                          *)
(*   r.last   the record carries the is-last-of-transaction flag           *)
(*   r.onMember  the two transaction triples have the member as subject    *)
(*   r.ct     the change type value, or NoChange                           *)

Records(n) ==
    { r \in [n : {n}, sds : BOOLEAN, tx : TxIds \cup {NoTx}, last : BOOLEAN,
             onMember : BOOLEAN, ct : ChangeValues \cup {NoChange}] :
        \* raw (non-SDS) content carries no markers
        /\ ~r.sds => (r.tx = NoTx /\ r.ct = NoChange)
        \* the flags of the transaction triples mean something only with an id
        /\ r.tx = NoTx => (~r.last /\ r.onMember)
        \* the second transaction id and the foreign marker subject are
        \* exercised with one change type each
        /\ r.tx = "transact_2" => (r.onMember /\ r.ct = updateValue)
        /\ ~r.onMember => r.ct = createValue
        \* unrecognized and missing change types: outside and at the start of
        \* a transaction
        /\ r.ct \in {otherValue, NoChange} => ~r.last }

\* Test data generator: tests/SPARQLIngest.test.ts dataGenerator.
Parse(r) ==
    LET m == MemberOf(r.n)
        subj == IF r.onMember THEN m ELSE OtherSubject
    IN  (IF r.sds
            THEN { <<"_:b0", SDS_stream, "ex:sdsStream", SDS_DataDescription>>,
                   <<"_:b0", SDS_payload, m, SDS_DataDescription>> }
            ELSE {})
        \cup (IF r.ct # NoChange THEN { <<m, changeTypePath, r.ct, DefaultGraph>> } ELSE {})
        \cup (IF r.tx # NoTx THEN { <<subj, transactionIdPath, r.tx, DefaultGraph>> } ELSE {})
        \cup (IF r.last THEN { <<subj, transactionEndPath, "true", DefaultGraph>> } ELSE {})
        \cup { <<m, "ex:propNum", "+30", DefaultGraph>> }

-----------------------------------------------------------------------------
(* Store helpers *)

\* store.getQuads(null, p, null, null)
getQuadsByPredicate(store, p) == { q \in store : q[2] = p }

\* getObjects(store, null, p, g)[0] : the first object, or undefined.  The
\* records above hold at most one quad per marker predicate, so the first
\* element is the only one.
firstObject(store, p, g) ==
    LET qs == { q \in store : q[2] = p /\ (g = Undefined \/ q[4] = g) }
    IN  IF qs = {} THEN Undefined ELSE (CHOOSE q \in qs : TRUE)[3]

\* store.getQuads(null, changeTypePath)[0]
firstQuad(store, p) ==
    LET qs == getQuadsByPredicate(store, p)
    IN  IF qs = {} THEN <<Undefined, Undefined, Undefined, Undefined>>
        ELSE CHOOSE q \in qs : TRUE

Subjects(store) == { q[1] : q \in store }

-----------------------------------------------------------------------------
(* Utils.sanitizeQuads: an xsd:integer literal whose lexical form starts   *)
(* with '+' is replaced by the literal without the sign.                   *)

IsIntegerLiteral(o) == o \in {"+30", "30"}
startsWithPlus(o) == o = "+30"
substring1(o) == IF o = "+30" THEN "30" ELSE o

sanitizeQuads(store) ==
    { IF IsIntegerLiteral(q[3]) /\ startsWithPlus(q[3])
        THEN <<q[1], q[2], substring1(q[3]), q[4]>>
        ELSE q : q \in store }

-----------------------------------------------------------------------------
(* Utils.splitStore.  A store is given as the sequence store.getQuads()    *)
(* yields; a chunk (an RdfStore) is a set of quads.                        *)

BlankNodes == {"_:b0", "_:b1", "_:b2"}
isBlankNode(t) == t \in BlankNodes

SetOf(quads) == { quads[k] : k \in 1..Len(quads) }

\* [...store.getQuads(t), ...store.getQuads(null, null, t)] for a blank node t
neighbourhood(quads, t) ==
    IF isBlankNode(t) THEN { q \in SetOf(quads) : q[1] = t \/ q[3] = t } ELSE {}

\* The for loop of splitStore from index i on.  bnSet holds the quads already
\* pulled into a chunk (the code keys them by the concatenation of their four
\* term values).
RECURSIVE splitLoop(_, _, _, _, _, _)
splitLoop(quads, threshold, i, bnSet, subStore, stores) ==
    IF i > Len(quads) THEN Append(stores, subStore)
    ELSE IF quads[i] \in bnSet
    THEN splitLoop(quads, threshold, i + 1, bnSet, subStore, stores)
    ELSE
      LET full == Cardinality(subStore) >= threshold
          stores1 == IF full THEN Append(stores, subStore) ELSE stores
          subStore1 == IF full THEN {} ELSE subStore
          pulled == neighbourhood(quads, quads[i][1]) \cup neighbourhood(quads, quads[i][3])
      IN  splitLoop(quads, threshold, i + 1, bnSet \cup pulled,
                    subStore1 \cup pulled \cup {quads[i]}, stores1)

splitStore(quads, threshold) ==
    IF Len(quads) < threshold THEN << SetOf(quads) >>
    ELSE splitLoop(quads, threshold, 1, {}, {}, <<>>)

-----------------------------------------------------------------------------
(* SPARQLQueries: a statement is a record                                  *)
(*   op       "INSERT DATA" or "DELETE WHERE"                              *)
(*   graph    the WITH <graph> of the statement, or Undefined              *)
(*   quads    the quads written out in an INSERT DATA block                *)
(*   subjects the subjects <s> of the wildcard patterns <s> ?p_i ?o_i      *)
(* The stores of this model stay below the split threshold, so splitStore  *)
(* returns the store itself and there is one INSERT DATA per store.        *)

InsertData(store, namedGraph) ==
    [op |-> "INSERT DATA", graph |-> namedGraph, quads |-> store, subjects |-> {}]

DeleteWhere(subjects, namedGraph) ==
    [op |-> "DELETE WHERE", graph |-> namedGraph, quads |-> {}, subjects |-> subjects]

\* formatQuery(store, memberIRI, memberShapes, i)[0]: which subjects the
\* pattern names.  Without shapes: one wildcard per distinct subject of the
\* store.  With shapes: the member itself (its sub-entities are variables).
formatQuery(memberStore, memberIRI, memberShapes) ==
    IF ~memberShapes THEN Subjects(memberStore) ELSE {memberIRI}

CREATE(store, namedGraph) == << InsertData(store, namedGraph) >>

\* An Update that leaves out its DELETE/WHERE statement.
UPDATE_insertOnly(store, namedGraph) == << InsertData(store, namedGraph) >>

UPDATE(store, namedGraph) ==
    << DeleteWhere(formatQuery(store, Undefined, FALSE), namedGraph),
       InsertData(store, namedGraph) >>

DELETE(store, memberIRIs, memberShapes, namedGraph) ==
    << DeleteWhere(UNION { formatQuery(store, memberIRIs[k], memberShapes) :
                             k \in 1..Len(memberIRIs) },
                   namedGraph) >>

\* The quads a query writes to the target store.
QuadsOf(query) == UNION { query[k].quads : k \in 1..Len(query) }
\* The subjects a query deletes by wildcard.
DeletedSubjectsOf(query) == UNION { query[k].subjects : k \in 1..Len(query) }

-----------------------------------------------------------------------------
(* SPARQLQueries, the text of the delete patterns.  The operators above    *)
(* keep of a pattern the subjects it names; the ones below keep each line  *)
(* with its numbered variables.  A term is <<kind, name, index>>; a line   *)
(* is a triple pattern or one of the two marks of an OPTIONAL block.       *)
(* A store is the sequence store.getQuads() yields.  A member shape is     *)
(* given parsed: its main target class (extractMainTargetClass) and the    *)
(* sh:path of its property shapes in the order getObjects yields them.     *)

RDF_type == "rdf:type"
Literals == {"30", "+30", "true", "transact_1", "transact_2"}
isLiteral(t) == t \in Literals

Iri(v) == <<"iri", v, 0>>
Lit(v) == <<"literal", v, 0>>
Var(name, i) == <<"var", name, i>>
NoTerm == <<"none", "", 0>>

Triple(subj, pred, obj) == [line |-> "triple", s |-> subj, p |-> pred, o |-> obj]
OptionalOpen == [line |-> "OPTIONAL {", s |-> NoTerm, p |-> NoTerm, o |-> NoTerm]
OptionalClose == [line |-> "}", s |-> NoTerm, p |-> NoTerm, o |-> NoTerm]

\* No member shapes: one set of patterns per distinct subject of the store.
RECURSIVE formatAllSubjects(_, _, _, _, _)
formatAllSubjects(quads, k, subjectSet, i, queryBuilder) ==
    IF k > Len(quads) THEN queryBuilder
    ELSE IF quads[k][1] \in subjectSet
    THEN formatAllSubjects(quads, k + 1, subjectSet, i, queryBuilder)
    ELSE
      LET quad == quads[k]
          object == IF isLiteral(quad[3]) THEN Lit(quad[3])
                    ELSE IF isBlankNode(quad[3]) THEN Var("bn_ref", i)
                    ELSE Iri(quad[3])
          lines == IF isBlankNode(quad[1])
                   THEN << Triple(Var("bn", i), Iri(quad[2]), object),
                           Triple(Var("bn", i), Var("p", i), Var("o", i)),
                           Triple(Var("s_ref", i), Var("p_ref", i), Var("bn", i)) >>
                   ELSE << Triple(Iri(quad[1]), Var("p", i), Var("o", i)) >>
      IN  formatAllSubjects(quads, k + 1, subjectSet \cup {quad[1]}, i + 1,
                            queryBuilder \o lines)

\* shapeIndex.set(targetClass, shapeStore): a Map keeps the place of a key
\* it already holds.
RECURSIVE shapeIndexOf(_, _, _)
shapeIndexOf(memberShapes, k, shapeIndex) ==
    IF k > Len(memberShapes) THEN shapeIndex
    ELSE LET msh == memberShapes[k]
             held == { j \in 1..Len(shapeIndex) :
                         shapeIndex[j].targetClass = msh.targetClass }
         IN  shapeIndexOf(memberShapes, k + 1,
                 IF held = {} THEN Append(shapeIndex, msh)
                 ELSE [shapeIndex EXCEPT ![CHOOSE j \in held : TRUE] = msh])

\* A lookup that takes the first shape, whatever the type.
shapeIndexGet_first(shapeIndex, memberType) == shapeIndex[1]

\* shapeIndex.get(memberType.value), or undefined
shapeIndexGet(shapeIndex, memberType) ==
    LET held == { j \in 1..Len(shapeIndex) : shapeIndex[j].targetClass = memberType }
    IN  IF held = {} THEN [targetClass |-> Undefined, paths |-> <<>>]
        ELSE shapeIndex[CHOOSE j \in held : TRUE]

\* for (const propSh of propShapes): two lines per property, index i onwards
propertyLines(memberIRI, paths, i) ==
    [ n \in 1..(2 * Len(paths)) |->
        LET idx == i + ((n - 1) \div 2)
        IN  IF n % 2 = 1
            THEN Triple(Iri(memberIRI), Iri(paths[(n + 1) \div 2]), Var("subEnt", idx))
            ELSE Triple(Var("subEnt", idx), Var("p", idx), Var("o", idx)) ]

\* shapeIndex.forEach(...): an OPTIONAL block per shape in the WHERE pattern,
\* the same triples without the marks in the DELETE pattern.
RECURSIVE formatEveryShape(_, _, _, _, _, _)
formatEveryShape(memberIRI, shapeIndex, k, i, queryBuilder, deleteQueryBuilder) ==
    IF k > Len(shapeIndex) THEN << queryBuilder, deleteQueryBuilder >>
    ELSE LET lines == propertyLines(memberIRI, shapeIndex[k].paths, i)
         IN  formatEveryShape(memberIRI, shapeIndex, k + 1, i + Len(shapeIndex[k].paths),
                 queryBuilder \o << OptionalOpen >> \o lines \o << OptionalClose >>,
                 deleteQueryBuilder \o lines)

\* getObjects(memberStore, memberIRI, rdf:type)[0]
memberTypeOf(quads, memberIRI) ==
    LET at == { k \in 1..Len(quads) : quads[k][1] = memberIRI /\ quads[k][2] = RDF_type }
    IN  IF at = {} THEN Undefined
        ELSE quads[CHOOSE k \in at : \A j \in at : k <= j][3]

\* formatQuery(memberStore, memberIRI, memberShapes, indexStart): the array
\* of formatted patterns, or the error it throws.
formatQueryText(memberStore, memberIRI, memberShapes, indexStart) ==
    IF Len(memberShapes) = 0
    THEN [err |-> "none",
          formatted |-> << formatAllSubjects(memberStore, 1, {}, indexStart, <<>>) >>]
    ELSE
      LET shapeIndex == shapeIndexOf(memberShapes, 1, <<>>)
          basic == Triple(Iri(memberIRI), Var("p", indexStart), Var("o", indexStart))
          memberType == memberTypeOf(memberStore, memberIRI)
      IN  IF memberType # Undefined
          THEN LET mshStore == shapeIndexGet(shapeIndex, memberType)
               IN  IF mshStore.targetClass = Undefined
                   THEN [err |-> "TypeError", formatted |-> <<>>]
                   ELSE [err |-> "none",
                         formatted |-> << << basic >>
                             \o propertyLines(memberIRI, mshStore.paths, indexStart + 1) >>]
          ELSE [err |-> "none",
                formatted |-> formatEveryShape(memberIRI, shapeIndex, 1, indexStart + 1,
                                               << basic >>, << basic >>)]

\* A DELETE template that repeats the WHERE pattern.
deleteTemplate_where(formatted) == formatted[1]

\* formatted.length > 1 ? formatted[1] : formatted[0]
deleteTemplate(formatted) == IF Len(formatted) > 1 THEN formatted[2] ELSE formatted[1]

\* DELETE: the loop over memberIRIs.  deleteBuilder and whereBuilder hold one
\* fragment per member, which the query joins.
RECURSIVE DELETEText(_, _, _, _, _)
DELETEText(store, memberIRIs, memberShapes, indexStart, acc) ==
    IF indexStart >= Len(memberIRIs) THEN acc
    ELSE LET f == formatQueryText(store, memberIRIs[indexStart + 1], memberShapes, indexStart)
         IN  IF f.err # "none" THEN [acc EXCEPT !.err = f.err]
             ELSE DELETEText(store, memberIRIs, memberShapes, indexStart + 1,
                     [acc EXCEPT !.deleteBuilder = Append(@, deleteTemplate(f.formatted)),
                                 !.whereBuilder = Append(@, f.formatted[1])])

\* UPDATE for a store given as a sequence and a split threshold (500 in
\* the code): the DELETE/WHERE statement, then one INSERT DATA per chunk.
insertStatements(quads, namedGraph, threshold) ==
    LET stores == splitStore(quads, threshold)
    IN  [ k \in 1..Len(stores) |-> InsertData(stores[k], namedGraph) ]

UPDATEText(quads, namedGraph, threshold) ==
    << DeleteWhere(formatQuery(SetOf(quads), Undefined, FALSE), namedGraph) >>
    \o insertStatements(quads, namedGraph, threshold)

-----------------------------------------------------------------------------
(* Utils.doSPARQLRequest(query: string[], config)                          *)

\* The array a query builder hands over: one statement per element.
queryArray(statements) == [ k \in 1..Len(statements) |-> << statements[k] >> ]

\* query.join("\n")
RECURSIVE joinQuery(_, _)
joinQuery(query, k) ==
    IF k > Len(query) THEN <<>> ELSE query[k] \o joinQuery(query, k + 1)

\* The elements one by one whatever the size.
queriesOf_split(query, forVirtuoso, overOneMB) == query

\* The requests to send: the elements one by one for Virtuoso when the
\* joint query is over 1 MB, the joint query otherwise.
queriesOf(query, forVirtuoso, overOneMB) ==
    IF forVirtuoso /\ overOneMB THEN query ELSE << joinQuery(query, 1) >>

-----------------------------------------------------------------------------
(* Configuration *)

Configs ==
    { c \in [variant : {"sparqlIngest", "transform2", "transform3"},
             changeSemantics : BOOLEAN,
             transactionConfig : BOOLEAN,
             targetNamedGraph : {Undefined, TargetGraph},
             memberIsGraph : BOOLEAN,
             memberShapes : BOOLEAN] :
        \* part_003 has no memberIsGraph option
        /\ c.memberIsGraph => (c.variant # "transform3" /\ c.changeSemantics
                                 /\ c.targetNamedGraph # Undefined /\ c.transactionConfig)
        \* shapes matter for deletes only
        /\ c.memberShapes => (c.changeSemantics /\ c.targetNamedGraph = Undefined
                                 /\ c.transactionConfig)
        /\ ~c.transactionConfig => (c.changeSemantics /\ c.targetNamedGraph = Undefined) }

getNamedGraphIfAny(memberIRI, memberIsGraph, targetNamedGraph) ==
    IF memberIsGraph THEN memberIRI
    ELSE IF targetNamedGraph # Undefined THEN targetNamedGraph
    ELSE Undefined

-----------------------------------------------------------------------------
(* Transactions *)

\* TRUE iff verifyTransaction returns without throwing.
verifyTransaction(stores, transactionId) ==
    \A k \in 1..Len(stores) :
        \A q \in getQuadsByPredicate(stores[k], transactionIdPath) : q[3] = transactionId

TransactionMember(memberIRI, transactionId, store) ==
    [memberId |-> memberIRI, transactionId |-> transactionId, store |-> store]

\* The transaction part of the record handler.  kind is
\*   "none"      no transaction applies, the record goes on to synthesis
\*   "last"      the record closes a transaction and goes on to synthesis
\*   "buffered"  the record was pushed on the buffer and the handler returned
\*   "error"     the handler threw err
transactionStep(cfg, store, memberIRI, members) ==
    LET transactionId == firstObject(store, transactionIdPath, Undefined)
    IN  IF ~cfg.transactionConfig \/ transactionId = Undefined
        THEN [kind |-> "none", store |-> store, members |-> members, err |-> "none"]
        ELSE
          LET store1 == store \ { <<memberIRI, transactionIdPath, transactionId, DefaultGraph>> }
              isLastOfTransaction == firstObject(store1, transactionEndPath, Undefined)
              verified == verifyTransaction([k \in 1..Len(members) |-> members[k].store],
                                            transactionId)
              mismatch == [kind |-> "error", store |-> store1, members |-> members,
                           err |-> "non-matching transaction ID"]
          IN  IF isLastOfTransaction # Undefined
              THEN IF ~verified THEN mismatch
                   ELSE LET store2 == store1 \ { <<memberIRI, transactionEndPath,
                                                   isLastOfTransaction, DefaultGraph>> }
                        IN  [kind |-> "last", store |-> store2,
                             members |-> Append(members,
                                 TransactionMember(memberIRI, transactionId, store2)),
                             err |-> "none"]
              ELSE IF Len(members) > 0
              THEN IF ~verified THEN mismatch
                   ELSE [kind |-> "buffered", store |-> store1,
                         members |-> Append(members,
                             TransactionMember(memberIRI, transactionId, store1)),
                         err |-> "none"]
              ELSE IF Len(members) > 0
                   THEN [kind |-> "error", store |-> store1, members |-> members,
                         err |-> "older transaction hasn't been finalized"]
                   ELSE [kind |-> "buffered", store |-> store1,
                         members |-> Append(members,
                             TransactionMember(memberIRI, transactionId, store1)),
                         err |-> "none"]

-----------------------------------------------------------------------------
(* createTransactionQueries *)

\* The loop over the buffered members.  acc.members is the buffer with the
\* stores as the loop has left them (removeQuad works on the buffered store).
\* removeChangeType: the variant calls tsm.store.removeQuad(ctv).
RECURSIVE sortMembers(_, _, _, _)
sortMembers(members, k, acc, removeChangeType) ==
    IF k > Len(members) THEN acc
    ELSE
      LET tsm == members[k]
          ctv == firstQuad(tsm.store, changeTypePath)
      IN  IF ctv[1] = Undefined
          THEN [acc EXCEPT !.err = "TypeError"]
          ELSE
            LET tsmStore == IF removeChangeType THEN tsm.store \ {ctv} ELSE tsm.store
                acc1 == [acc EXCEPT !.members[k].store = tsmStore]
            IN  IF ctv[3] = createValue
                THEN sortMembers(members, k + 1,
                        [acc1 EXCEPT !.createStore = @ \cup tsmStore], removeChangeType)
                ELSE IF ctv[3] = updateValue
                THEN sortMembers(members, k + 1,
                        [acc1 EXCEPT !.updateStore = @ \cup tsmStore], removeChangeType)
                ELSE IF ctv[3] = deleteValue
                THEN sortMembers(members, k + 1,
                        [acc1 EXCEPT !.deleteStore = @ \cup tsmStore,
                                     !.deleteMembers = Append(@, tsm.memberId)],
                        removeChangeType)
                ELSE [acc1 EXCEPT !.err = "Unrecognized change type value"]

emptySort(members) ==
    [createStore |-> {}, updateStore |-> {}, deleteStore |-> {}, deleteMembers |-> <<>>,
     members |-> members, err |-> "none"]

\* src/src/SPARQLIngest.ts and part_002: the same text.
createTransactionQueries(transactionMembers, cfg) ==
    LET acc == sortMembers(transactionMembers, 1, emptySort(transactionMembers), TRUE)
    IN  [err |-> acc.err, members |-> acc.members,
         query |->
            (IF acc.createStore # {}
                THEN CREATE(acc.createStore, cfg.targetNamedGraph) ELSE <<>>)
            \o (IF acc.updateStore # {}
                THEN UPDATE(acc.updateStore, cfg.targetNamedGraph) ELSE <<>>)
            \o (IF acc.updateStore # {}
                THEN DELETE(acc.deleteStore, acc.deleteMembers, cfg.memberShapes,
                            cfg.targetNamedGraph)
                ELSE <<>>)]

RECURSIVE deletePerMember(_, _, _, _)
deletePerMember(deleteStore, deleteMembers, k, memberShape) ==
    IF k > Len(deleteMembers) THEN <<>>
    ELSE DELETE(deleteStore, <<deleteMembers[k]>>, memberShape, Undefined)
         \o deletePerMember(deleteStore, deleteMembers, k + 1, memberShape)

\* part_003: the change type quad stays in the store, one DELETE per member.
createTransactionQueries3(transactionMembers, cfg) ==
    LET acc == sortMembers(transactionMembers, 1, emptySort(transactionMembers), FALSE)
    IN  [err |-> acc.err, members |-> acc.members,
         query |->
            (IF acc.createStore # {} THEN CREATE(acc.createStore, Undefined) ELSE <<>>)
            \o (IF acc.updateStore # {} THEN UPDATE(acc.updateStore, Undefined) ELSE <<>>)
            \o (IF acc.deleteStore # {}
                THEN deletePerMember(acc.deleteStore, acc.deleteMembers, 1, cfg.memberShapes)
                ELSE <<>>)]

-----------------------------------------------------------------------------
(* What handling one record comes to:                                      *)
(*   result   "buffered" | "query" | "noquery" | "error"                   *)
(*   err      the error thrown, or "none"                                  *)
(*   members  the transaction buffer afterwards                            *)
(*   query    the query handed to the writer when result = "query"         *)

Thrown(e, members) == [result |-> "error", err |-> e, members |-> members, query |-> <<>>]
Buffered(members) == [result |-> "buffered", err |-> "none", members |-> members, query |-> <<>>]
Executed(query, members) == [result |-> "query", err |-> "none", members |-> members, query |-> query]
NoQuery(members) == [result |-> "noquery", err |-> "none", members |-> members, query |-> <<>>]

\* All quads of the buffered stores.
BufferedQuads(members) == UNION { members[k].store : k \in 1..Len(members) }

\* transactionMembers.forEach(ts => store.addQuads(ts.store.getQuads())) when
\* the record closed a transaction: store is the store of the last buffer
\* entry, so that entry grows with it.
addToLast(members, kind, merged) ==
    IF kind = "last" THEN [members EXCEPT ![Len(members)].store = merged] ELSE members

-----------------------------------------------------------------------------
(* src/src/SPARQLIngest.ts: memberStream.data(async rawQuads => ...)       *)

\* A removal that forgets the sds:payload quads.
removeSDSWrapper_streamOnly(store) == store \ getQuadsByPredicate(store, SDS_stream)

\* store.removeQuads(getQuads(null, SDS.stream)); ...(null, SDS.payload)
removeSDSWrapper(store) ==
    (store \ getQuadsByPredicate(store, SDS_stream)) \ getQuadsByPredicate(store, SDS_payload)

\* The part of the handler after the transaction check.
synthesize(cfg, t, memberIRI) ==
    IF cfg.changeSemantics
    THEN IF Len(t.members) > 0
         THEN LET f == createTransactionQueries(t.members, cfg)
              IN  IF f.err # "none" THEN Thrown(f.err, f.members)
                  \* if (query): the joined text of no statement is ""
                  ELSE IF f.query # <<>> THEN Executed(f.query, <<>>)
                  ELSE NoQuery(<<>>)
         ELSE LET ng == getNamedGraphIfAny(memberIRI, cfg.memberIsGraph, cfg.targetNamedGraph)
                  ctv == firstQuad(t.store, changeTypePath)
              IN  IF ctv[1] = Undefined THEN Thrown("TypeError", t.members)
                  ELSE LET store == sanitizeQuads(t.store \ {ctv})
                       IN  IF ctv[3] = createValue
                           THEN Executed(CREATE(store, ng), t.members)
                           ELSE IF ctv[3] = updateValue
                           THEN Executed(UPDATE(store, ng), t.members)
                           ELSE IF ctv[3] = deleteValue
                           THEN Executed(DELETE(store, <<memberIRI>>, cfg.memberShapes, ng),
                                         t.members)
                           ELSE Thrown("Unrecognized change type value", t.members)
    ELSE IF Len(t.members) > 0
         THEN LET merged == t.store \cup BufferedQuads(t.members)
              IN  Executed(UPDATE(merged, cfg.targetNamedGraph),
                           addToLast(t.members, t.kind, merged))
         ELSE LET ng == getNamedGraphIfAny(memberIRI, cfg.memberIsGraph, cfg.targetNamedGraph)
              IN  Executed(UPDATE(t.store, ng), t.members)

sparqlIngestHandler(cfg, members, r) ==
    LET quads == Parse(r)
        memberIRI == firstObject(quads, SDS_payload, Undefined)
    IN  IF memberIRI = Undefined
        THEN Thrown("No member IRI found", members)
        ELSE LET t == transactionStep(cfg, removeSDSWrapper(quads), memberIRI, members)
             IN  IF t.kind = "error" THEN Thrown(t.err, t.members)
                 ELSE IF t.kind = "buffered" THEN Buffered(t.members)
                 ELSE synthesize(cfg, t, memberIRI)

-----------------------------------------------------------------------------
(* part_002: SPARQLIngest.transform, one iteration of the for-await loop   *)

\* store.getQuads(null, null, null, sds:DataDescription).forEach(removeQuad)
removeSDSQuads(store) == { q \in store : q[4] # SDS_DataDescription }

synthesize2(cfg, t, memberIRI) ==
    IF cfg.changeSemantics
    THEN IF Len(t.members) > 0
         THEN LET f == createTransactionQueries(t.members, cfg)
              IN  IF f.err # "none" THEN Thrown(f.err, f.members)
                  \* query = [text]: an array of one element, whatever the text
                  ELSE Executed(f.query, <<>>)
         ELSE LET ng == getNamedGraphIfAny(memberIRI, cfg.memberIsGraph, cfg.targetNamedGraph)
                  ctv == firstQuad(t.store, changeTypePath)
              IN  IF ctv[1] = Undefined THEN Thrown("TypeError", t.members)
                  ELSE LET store == sanitizeQuads(t.store \ {ctv})
                       IN  IF ctv[3] = createValue
                           THEN Executed(CREATE(store, ng), t.members)
                           ELSE IF ctv[3] = updateValue
                           THEN Executed(UPDATE(store, ng), t.members)
                           ELSE IF ctv[3] = deleteValue
                           THEN Executed(DELETE(store, <<memberIRI>>, cfg.memberShapes, ng),
                                         t.members)
                           ELSE Thrown("Unrecognized change type value", t.members)
    ELSE IF Len(t.members) > 0
         THEN LET merged == t.store \cup BufferedQuads(t.members)
              IN  Executed(UPDATE(merged, cfg.targetNamedGraph),
                           addToLast(t.members, t.kind, merged))
         ELSE LET ng == getNamedGraphIfAny(memberIRI, cfg.memberIsGraph, cfg.targetNamedGraph)
              IN  Executed(UPDATE(t.store, ng), t.members)

transform2Handler(cfg, members, r) ==
    LET quads == Parse(r)
        memberIRI == firstObject(quads, SDS_payload, SDS_DataDescription)
    IN  IF memberIRI = Undefined
        THEN \* Non-SDS data
             Executed(UPDATE(quads, cfg.targetNamedGraph), members)
        ELSE LET t == transactionStep(cfg, removeSDSQuads(quads), memberIRI, members)
             IN  IF t.kind = "error" THEN Thrown(t.err, t.members)
                 ELSE IF t.kind = "buffered" THEN Buffered(t.members)
                 ELSE synthesize2(cfg, t, memberIRI)

-----------------------------------------------------------------------------
(* part_003: SPARQLIngest.transform in Sync mode, one iteration            *)

\* Assign default graph triples to the target named graph (if any)
assignTargetGraph(quads, cfg) ==
    { IF q[4] = DefaultGraph /\ cfg.targetNamedGraph # Undefined
        THEN <<q[1], q[2], q[3], cfg.targetNamedGraph>>
        ELSE q : q \in quads }

synthesize3(cfg, t, memberIRI) ==
    IF cfg.changeSemantics
    THEN IF Len(t.members) > 0
         THEN LET f == createTransactionQueries3(t.members, cfg)
              IN  IF f.err # "none" THEN Thrown(f.err, f.members)
                  ELSE Executed(f.query, <<>>)
         ELSE LET ctv == firstQuad(t.store, changeTypePath)
              IN  IF ctv[1] = Undefined THEN Thrown("TypeError", t.members)
                  ELSE IF ctv[3] = createValue
                  THEN Executed(CREATE(t.store, Undefined), t.members)
                  ELSE IF ctv[3] = updateValue
                  THEN Executed(UPDATE(t.store, Undefined), t.members)
                  ELSE IF ctv[3] = deleteValue
                  THEN Executed(DELETE(t.store, <<memberIRI>>, cfg.memberShapes, Undefined),
                                t.members)
                  ELSE Thrown("Unrecognized change type value", t.members)
    ELSE IF Len(t.members) > 0
         THEN LET merged == t.store \cup BufferedQuads(t.members)
              IN  Executed(UPDATE(merged, Undefined), addToLast(t.members, t.kind, merged))
         ELSE Executed(UPDATE(t.store, Undefined), t.members)

transform3Handler(cfg, members, r) ==
    LET quads == sanitizeQuads(assignTargetGraph(Parse(r), cfg))
        memberIRI == firstObject(quads, SDS_payload, SDS_DataDescription)
    IN  IF memberIRI = Undefined
        THEN \* We got non-SDS data
             Executed(UPDATE(quads, Undefined), members)
        ELSE LET t == transactionStep(cfg, removeSDSQuads(quads), memberIRI, members)
             IN  IF t.kind = "error" THEN Thrown(t.err, t.members)
                 ELSE IF t.kind = "buffered" THEN Buffered(t.members)
                 ELSE synthesize3(cfg, t, memberIRI)

-----------------------------------------------------------------------------
(* The processor *)

VARIABLES
    config,              \* the IngestConfig and the variant of the record loop
    transactionMembers,  \* the transaction buffer
    written,             \* the queries pushed to sparqlWriter, in order
    log,                 \* per record received: the record and what came of it
    pc,                  \* "running" | "error" | "ended"
    err,                 \* the error the processor ended with, or "none"
    writerClosed,        \* sparqlWriter.end() / close() was called
    call,                \* the function called on its own and its arguments
    result,              \* what that call returned, once it has
    requests,            \* the HTTP requests doSPARQLRequest has sent, in order
    requestsPerformance, \* part_002, part_003: the request times, -1 for a failure
    memberBatch,         \* part_003: the quads batched in replication mode
    batchCount           \* part_003: the number of records in memberBatch

vars == <<config, transactionMembers, written, log, pc, err, writerClosed,
          call, result, requests, requestsPerformance, memberBatch, batchCount>>

\* The state the loops with performance measurement and batching add.
loopVars == <<requestsPerformance, memberBatch, batchCount>>

NoLoopState ==
    /\ requestsPerformance = <<>>
    /\ memberBatch = <<>>
    /\ batchCount = 0

\* No function is called on its own: the record loop runs.
NoCall == [fn |-> "none"]
NoResult == [done |-> FALSE, value |-> <<>>, err |-> "none"]

Init ==
    /\ config \in Configs
    /\ transactionMembers = <<>>
    /\ written = <<>>
    /\ log = <<>>
    /\ pc = "running"
    /\ err = "none"
    /\ writerClosed = FALSE
    /\ call = NoCall
    /\ result = NoResult
    /\ requests = <<>>
    /\ NoLoopState

\* The effect of one handled record on the processor.  A log entry keeps the
\* record, the result and the position of its query in written (0 when none
\* was written).
Handled(r, o) ==
    /\ transactionMembers' = o.members
    /\ written' = IF o.result = "query" THEN Append(written, o.query) ELSE written
    /\ log' = Append(log, [rec |-> r, result |-> o.result, err |-> o.err,
                           q |-> IF o.result = "query" THEN Len(written) + 1 ELSE 0])
    /\ pc' = IF o.result = "error" THEN "error" ELSE pc
    /\ err' = o.err
    /\ UNCHANGED <<config, writerClosed, call, result, requests>>
    /\ UNCHANGED loopVars

sparqlIngest ==
    /\ pc = "running" /\ config.variant = "sparqlIngest" /\ Len(log) < MaxRecords
    /\ \E r \in Records(Len(log) + 1) :
          Handled(r, sparqlIngestHandler(config, transactionMembers, r))

transform2 ==
    /\ pc = "running" /\ config.variant = "transform2" /\ Len(log) < MaxRecords
    /\ \E r \in Records(Len(log) + 1) :
          Handled(r, transform2Handler(config, transactionMembers, r))

transform3 ==
    /\ pc = "running" /\ config.variant = "transform3" /\ Len(log) < MaxRecords
    /\ \E r \in Records(Len(log) + 1) :
          Handled(r, transform3Handler(config, transactionMembers, r))

\* memberStream.on("end", ...) / the end of the for-await loop: the writer is
\* closed; nothing looks at the transaction buffer.
streamEnd ==
    /\ pc = "running"
    /\ pc' = "ended"
    /\ writerClosed' = TRUE
    /\ UNCHANGED <<config, transactionMembers, written, log, err, call, result, requests>>
    /\ UNCHANGED loopVars

Next == sparqlIngest \/ transform2 \/ transform3 \/ streamEnd

Spec == Init /\ [][Next]_vars

-----------------------------------------------------------------------------
(* Functions called on their own: the record loop stands still.            *)

NoProcessor ==
    /\ config = [variant |-> "none", changeSemantics |-> FALSE,
                 transactionConfig |-> FALSE, targetNamedGraph |-> Undefined,
                 memberIsGraph |-> FALSE, memberShapes |-> FALSE]
    /\ transactionMembers = <<>>
    /\ written = <<>>
    /\ log = <<>>
    /\ pc = "ended"
    /\ err = "none"
    /\ writerClosed = FALSE
    /\ NoLoopState

Returns(value, e) ==
    /\ ~result.done
    /\ result' = [done |-> TRUE, value |-> value, err |-> e]
    /\ UNCHANGED <<config, transactionMembers, written, log, pc, err, writerClosed, call>>
    /\ UNCHANGED loopVars

\* The quads of the stores splitStore is called with: named subjects, a
\* blank node _:b1 referred to by a named subject, and a blank node _:b2
\* referred to by _:b1.
SplitQuads ==
    { <<"ex:s1", "ex:p", "ex:o1", DefaultGraph>>,
      <<"ex:s2", "ex:p", "ex:o2", DefaultGraph>>,
      <<"ex:s1", "ex:q", "_:b1", DefaultGraph>>,
      <<"_:b1", "ex:p", "30", DefaultGraph>>,
      <<"_:b1", "ex:r", "_:b2", DefaultGraph>>,
      <<"_:b2", "ex:p", "30", DefaultGraph>> }

\* The stores of at most MaxQuads quads, in every order getQuads may yield.
SplitStores ==
    UNION { { q \in [1..n -> SplitQuads] :
                \A i, j \in 1..n : i # j => q[i] # q[j] } : n \in 0..MaxQuads }

SplitInit ==
    /\ NoProcessor
    /\ call \in [fn : {"splitStore"}, quads : SplitStores, threshold : 1..MaxThreshold]
    /\ result = NoResult
    /\ requests = <<>>

callSplitStore ==
    /\ call.fn = "splitStore"
    /\ Returns(splitStore(call.quads, call.threshold), "none")
    /\ UNCHANGED requests

SplitNext == callSplitStore

SplitSpec == SplitInit /\ [][SplitNext]_vars

\* The member shapes DELETE is called with: shapes with a target class of
\* their own (the README has the processor identify a shape by its target
\* class), one of them without a property shape as in the tests.
ShapeA == [targetClass |-> "ex:ClassA", paths |-> <<"ex:p1", "ex:p2">>]
ShapeB == [targetClass |-> "ex:ClassB", paths |-> <<"ex:p3">>]
ShapeC == [targetClass |-> "ex:ClassC", paths |-> <<>>]
ShapeLists ==
    { <<>>, <<ShapeA>>, <<ShapeB>>, <<ShapeA, ShapeB>>, <<ShapeB, ShapeA>>,
      <<ShapeA, ShapeC>> }

\* What the store holds of a member to delete: its rdf:type (of one of the
\* shapes, or none), a property with a sub-entity and, when
\* d.blank, a blank node it refers to.
DeleteMemberKinds ==
    [type : {Undefined, "ex:ClassA", "ex:ClassB", "ex:ClassC"}, blank : BOOLEAN]

SubEntityOf(n) == <<"ex:Sub_1", "ex:Sub_2", "ex:Sub_3", "ex:Sub_4">>[n]
BlankNodeOf(n) == <<"_:b1", "_:b2", "_:b0", "_:b0">>[n]

memberQuads(n, d) ==
    (IF d.type # Undefined
        THEN << <<MemberOf(n), RDF_type, d.type, DefaultGraph>> >> ELSE <<>>)
    \o << <<MemberOf(n), "ex:p1", SubEntityOf(n), DefaultGraph>>,
          <<SubEntityOf(n), "ex:propNum", "30", DefaultGraph>> >>
    \o (IF d.blank
        THEN << <<MemberOf(n), "ex:p2", BlankNodeOf(n), DefaultGraph>>,
                <<BlankNodeOf(n), "ex:propNum", "30", DefaultGraph>> >>
        ELSE <<>>)

RECURSIVE deleteStoreOf(_, _)
deleteStoreOf(ds, n) ==
    IF n > Len(ds) THEN <<>> ELSE memberQuads(n, ds[n]) \o deleteStoreOf(ds, n + 1)

DeleteCalls ==
    UNION { { [fn |-> "DELETE", store |-> deleteStoreOf(ds, 1),
               memberIRIs |-> [n \in 1..Len(ds) |-> MemberOf(n)],
               memberShapes |-> shapes] :
                 ds \in [1..len -> DeleteMemberKinds], shapes \in ShapeLists }
            : len \in 1..MaxDeleteMembers }

DeleteInit ==
    /\ NoProcessor
    /\ call \in DeleteCalls
    /\ result = NoResult
    /\ requests = <<>>

callDELETE ==
    /\ call.fn = "DELETE"
    /\ LET d == DELETEText(call.store, call.memberIRIs, call.memberShapes, 0,
                           [err |-> "none", deleteBuilder |-> <<>>, whereBuilder |-> <<>>])
       IN  Returns([deleteBuilder |-> d.deleteBuilder, whereBuilder |-> d.whereBuilder],
                   d.err)
    /\ UNCHANGED requests

DeleteNext == callDELETE

DeleteSpec == DeleteInit /\ [][DeleteNext]_vars

\* The queries doSPARQLRequest is called with: the statements of an UPDATE,
\* alone or after the INSERT DATA of a CREATE as in the fold of a
\* transaction; overOneMB stands for Buffer.byteLength(jointQuery) > 1e6.
CreatedQuad == <<"ex:Entity_5", "ex:propNum", "30", DefaultGraph>>

RequestCalls ==
    { [fn |-> "doSPARQLRequest",
       query |-> queryArray((IF c.created THEN CREATE({CreatedQuad}, Undefined) ELSE <<>>)
                            \o UPDATEText(c.quads, Undefined, c.threshold)),
       updated |-> SetOf(c.quads),
       forVirtuoso |-> c.forVirtuoso, overOneMB |-> c.overOneMB] :
         c \in [quads : SplitStores \ {<<>>}, threshold : 1..MaxThreshold, created : BOOLEAN,
                forVirtuoso : BOOLEAN, overOneMB : BOOLEAN] }

RequestInit ==
    /\ NoProcessor
    /\ call \in RequestCalls
    /\ result = NoResult
    /\ requests = <<>>

Queries == queriesOf(call.query, call.forVirtuoso, call.overOneMB)

\* A fetch that does not wait for the response to the request before it.
sendRequest_noAwait ==
    /\ call.fn = "doSPARQLRequest" /\ ~result.done
    /\ Len(requests) < Len(Queries)
    /\ requests' = Append(requests, [body |-> Queries[Len(requests) + 1],
                                     status |-> "pending"])
    /\ UNCHANGED <<config, transactionMembers, written, log, pc, err, writerClosed,
                   call, result>>
    /\ UNCHANGED loopVars

\* for (const q of queries) fetch(...): the next request goes out once the one
\* before it was answered with res.ok.
sendRequest ==
    /\ call.fn = "doSPARQLRequest" /\ ~result.done
    /\ Len(requests) < Len(Queries)
    /\ \A k \in 1..Len(requests) : requests[k].status = "ok"
    /\ requests' = Append(requests, [body |-> Queries[Len(requests) + 1],
                                     status |-> "pending"])
    /\ UNCHANGED <<config, transactionMembers, written, log, pc, err, writerClosed,
                   call, result>>
    /\ UNCHANGED loopVars

\* A loop that does not look at res.ok: it returns after the last query.
receiveResponse_noThrow ==
    /\ call.fn = "doSPARQLRequest" /\ ~result.done
    /\ Len(requests) > 0 /\ requests[Len(requests)].status = "pending"
    /\ \E ok \in BOOLEAN :
          /\ requests' = [requests EXCEPT ![Len(requests)].status =
                                             IF ok THEN "ok" ELSE "failed"]
          /\ result' = IF Len(requests) = Len(Queries)
                       THEN [done |-> TRUE, value |-> <<>>, err |-> "none"]
                       ELSE result
    /\ UNCHANGED <<config, transactionMembers, written, log, pc, err, writerClosed, call>>
    /\ UNCHANGED loopVars

\* await fetch(...) returns: !res.ok throws, res.ok goes on with the loop,
\* which returns after the last query.
receiveResponse ==
    /\ call.fn = "doSPARQLRequest" /\ ~result.done
    /\ Len(requests) > 0 /\ requests[Len(requests)].status = "pending"
    /\ \E ok \in BOOLEAN :
          /\ requests' = [requests EXCEPT ![Len(requests)].status =
                                             IF ok THEN "ok" ELSE "failed"]
          /\ result' = IF ~ok THEN [done |-> TRUE, value |-> <<>>,
                                    err |-> "HTTP request failed"]
                       ELSE IF Len(requests) = Len(Queries)
                       THEN [done |-> TRUE, value |-> <<>>, err |-> "none"]
                       ELSE result
    /\ UNCHANGED <<config, transactionMembers, written, log, pc, err, writerClosed, call>>
    /\ UNCHANGED loopVars

RequestNext == sendRequest \/ receiveResponse

RequestSpec == RequestInit /\ [][RequestNext]_vars

-----------------------------------------------------------------------------
(* SPARQLQueries.formatQuery with the member shapes as given in the         *)
(* configuration: shape documents, here the sets of their quads.            *)

SH_NodeShape == "sh:NodeShape"
SH_targetClass == "sh:targetClass"
SH_property == "sh:property"
SH_path == "sh:path"
SH_node == "sh:node"

\* getSubjects(store, predicate, object), getObjects(store, subject, predicate)
getSubjects(store, predicate, object) ==
    { q[1] : q \in { x \in store : (predicate = Undefined \/ x[2] = predicate)
                                   /\ x[3] = object } }
getObjects(store, subject, predicate) ==
    { q[3] : q \in { x \in store : (subject = Undefined \/ x[1] = subject)
                                   /\ x[2] = predicate } }

\* A choice of the main shape that takes an unreferenced node shape and goes
\* on when there are more.
extractMainTargetClass_anyMain(store) ==
    LET nodeShapes == getSubjects(store, RDF_type, SH_NodeShape)
        main == { ns \in nodeShapes : getSubjects(store, Undefined, ns) = {} }
    IN  IF nodeShapes = {}
        THEN [err |-> "No SHACL Node Shapes found", targetClass |-> Undefined]
        ELSE IF main = {}
        THEN [err |-> "No main SHACL Node Shapes found", targetClass |-> Undefined]
        ELSE LET tcq == getObjects(store, CHOOSE ns \in main : TRUE, SH_targetClass)
             IN  IF tcq = {}
                 THEN [err |-> "No target class found", targetClass |-> Undefined]
                 ELSE [err |-> "none", targetClass |-> CHOOSE t \in tcq : TRUE]

\* extractMainTargetClass: the target class of the one node shape no quad of
\* the document has as its object, or the error thrown.
extractMainTargetClass(store) ==
    LET nodeShapes == getSubjects(store, RDF_type, SH_NodeShape)
        main == { ns \in nodeShapes : getSubjects(store, Undefined, ns) = {} }
    IN  IF nodeShapes = {}
        THEN [err |-> "No SHACL Node Shapes found", targetClass |-> Undefined]
        ELSE IF Cardinality(main) > 1
        THEN [err |-> "There are multiple main node shapes", targetClass |-> Undefined]
        ELSE IF main = {}
        THEN [err |-> "No main SHACL Node Shapes found", targetClass |-> Undefined]
        ELSE LET tcq == getObjects(store, CHOOSE ns \in main : TRUE, SH_targetClass)
             IN  IF tcq = {}
                 THEN [err |-> "No target class found", targetClass |-> Undefined]
                 ELSE [err |-> "none", targetClass |-> CHOOSE t \in tcq : TRUE]

\* The sh:path of the property shapes of a document, in the order getObjects
\* yields them (the documents below have at most one).
RECURSIVE pathsOf(_, _)
pathsOf(store, propShapes) ==
    IF propShapes = {} THEN <<>>
    ELSE LET propSh == CHOOSE x \in propShapes : TRUE
         IN  << CHOOSE pred \in getObjects(store, propSh, SH_path) : TRUE >>
             \o pathsOf(store, propShapes \ {propSh})

\* memberShapes.forEach(msh => shapeIndex.set(extractMainTargetClass(...)))
\* up to the first document that throws.
RECURSIVE parseShapes(_, _, _)
parseShapes(docs, k, acc) ==
    IF k > Len(docs) THEN acc
    ELSE LET tc == extractMainTargetClass(docs[k])
         IN  IF tc.err # "none" THEN [acc EXCEPT !.err = tc.err]
             ELSE parseShapes(docs, k + 1,
                     [acc EXCEPT !.shapes = Append(@,
                         [targetClass |-> tc.targetClass,
                          paths |-> pathsOf(docs[k],
                                        getObjects(docs[k], Undefined, SH_property))])])

\* The shape documents: node shapes ex:ShapeA and ex:ShapeB, each with or
\* without a target class, ex:ShapeA with or without a property shape, which
\* may refer to ex:ShapeB; ex:ShapeB may refer to ex:ShapeA.
ShapeDocumentParts ==
    << { <<"ex:ShapeA", RDF_type, SH_NodeShape, DefaultGraph>> },
       { <<"ex:ShapeA", SH_targetClass, "ex:ClassA", DefaultGraph>> },
       { <<"ex:ShapeA", SH_property, "_:b1", DefaultGraph>>,
         <<"_:b1", SH_path, "ex:p1", DefaultGraph>> },
       { <<"_:b1", SH_node, "ex:ShapeB", DefaultGraph>> },
       { <<"ex:ShapeB", RDF_type, SH_NodeShape, DefaultGraph>> },
       { <<"ex:ShapeB", SH_targetClass, "ex:ClassB", DefaultGraph>> },
       { <<"ex:ShapeB", SH_node, "ex:ShapeA", DefaultGraph>> } >>

ShapeDocuments ==
    { UNION { ShapeDocumentParts[k] : k \in use } : use \in SUBSET (1..Len(ShapeDocumentParts)) }

ShapeCalls ==
    [fn : {"DELETE with shape documents"},
     memberType : {Undefined, "ex:ClassA", "ex:ClassB"},
     memberShapes : { <<doc>> : doc \in ShapeDocuments }]

ShapeInit ==
    /\ NoProcessor
    /\ call \in ShapeCalls
    /\ result = NoResult
    /\ requests = <<>>

\* DELETE(store, [memberIRI], memberShapes): the shape index is built first;
\* an error of it ends the call.
callDELETEWithShapes ==
    /\ call.fn = "DELETE with shape documents"
    /\ LET parsed == parseShapes(call.memberShapes, 1, [err |-> "none", shapes |-> <<>>])
           store == memberQuads(1, [type |-> call.memberType, blank |-> FALSE])
           d == DELETEText(store, << MemberOf(1) >>, parsed.shapes, 0,
                           [err |-> "none", deleteBuilder |-> <<>>, whereBuilder |-> <<>>])
       IN  IF parsed.err # "none"
           THEN Returns([deleteBuilder |-> <<>>, whereBuilder |-> <<>>, shapeIndex |-> <<>>],
                        parsed.err)
           ELSE Returns([deleteBuilder |-> d.deleteBuilder, whereBuilder |-> d.whereBuilder,
                         shapeIndex |-> [k \in 1..Len(parsed.shapes) |->
                                            parsed.shapes[k].targetClass]],
                        d.err)
    /\ UNCHANGED requests

ShapeNext == callDELETEWithShapes

ShapeSpec == ShapeInit /\ [][ShapeNext]_vars

-----------------------------------------------------------------------------
(* The queries executed on a target store (the tests run them with a query  *)
(* engine on a local store).  A target store is a set of quads of the       *)
(* default graph; its blank nodes are TargetBlankNodes.  A solution of a    *)
(* WHERE pattern is a function from the variables of the pattern to terms.  *)

TargetBlankNodes == {"_:t1", "_:t2", "_:t3"}

\* The solutions that extend b so that the pattern term pt stands for v.
matchTerm(b, pt, v) ==
    IF pt[1] # "var" THEN (IF pt[2] = v THEN {b} ELSE {})
    ELSE IF pt \in DOMAIN b THEN (IF b[pt] = v THEN {b} ELSE {})
    ELSE { b @@ (pt :> v) }

matchLine(b, l, t) ==
    UNION { UNION { matchTerm(b2, l.o, t[3]) : b2 \in matchTerm(b1, l.p, t[2]) }
            : b1 \in matchTerm(b, l.s, t[1]) }

\* The solutions of the basic graph pattern lines[k..] that extend sols.
RECURSIVE solutions(_, _, _, _)
solutions(lines, k, sols, target) ==
    IF k > Len(lines) THEN sols
    ELSE solutions(lines, k + 1,
                   UNION { UNION { matchLine(b, lines[k], t) : t \in target } : b \in sols },
                   target)

valueOf(pt, b) == IF pt[1] = "var" THEN b[pt] ELSE pt[2]
instantiate(l, b) == << valueOf(l.s, b), valueOf(l.p, b), valueOf(l.o, b), DefaultGraph >>

\* DELETE { template } WHERE { where }
executeDelete(template, where, target) ==
    LET sols == solutions(where, 1, { <<>> }, target)
    IN  target \ { instantiate(template[k], b) : k \in 1..Len(template), b \in sols }

\* INSERT DATA { quads }: the blank nodes of the data are new to the store.
RECURSIVE freshNodes(_, _)
freshNodes(bns, unused) ==
    IF bns = {} THEN <<>>
    ELSE LET bn == CHOOSE x \in bns : TRUE
             f == CHOOSE x \in unused : TRUE
         IN  (bn :> f) @@ freshNodes(bns \ {bn}, unused \ {f})

renameTerm(t, names) == IF t \in DOMAIN names THEN names[t] ELSE t
renameQuads(quads, names) ==
    { << renameTerm(q[1], names), q[2], renameTerm(q[3], names), q[4] >> : q \in quads }

TermsIn(quads) == { q[1] : q \in quads } \cup { q[3] : q \in quads }

executeInsert(quads, target) ==
    LET bns == { t \in TermsIn(quads) : isBlankNode(t) }
    IN  target \cup renameQuads(quads, freshNodes(bns, TargetBlankNodes \ TermsIn(target)))

\* UPDATE(store) run on target: the DELETE/WHERE statement, then INSERT DATA.
executeUPDATE(quads, target) ==
    LET pattern == formatQueryText(quads, Undefined, <<>>, 0).formatted[1]
    IN  executeInsert(SetOf(quads), executeDelete(pattern, pattern, target))

\* fragments joined with "\n"
RECURSIVE joinLines(_, _)
joinLines(fragments, k) ==
    IF k > Len(fragments) THEN <<>> ELSE fragments[k] \o joinLines(fragments, k + 1)

\* DELETE(store, [memberIRI]) run on target.
executeDELETE(quads, memberIRI, target) ==
    LET d == DELETEText(quads, << memberIRI >>, <<>>, 0,
                        [err |-> "none", deleteBuilder |-> <<>>, whereBuilder |-> <<>>])
    IN  executeDelete(joinLines(d.deleteBuilder, 1), joinLines(d.whereBuilder, 1), target)

\* The members: ex:Entity_1 alone, with the sub-entity ex:Sub_1, and with a
\* blank node.
ExecMembers ==
    { << <<"ex:Entity_1", "ex:propNum", "30", DefaultGraph>> >>,
      << <<"ex:Entity_1", "ex:propNum", "30", DefaultGraph>>,
         <<"ex:Sub_1", "ex:propNum", "30", DefaultGraph>> >>,
      << <<"ex:Entity_1", "ex:propNum", "30", DefaultGraph>>,
         <<"ex:Entity_1", "ex:propBn", "_:b1", DefaultGraph>>,
         <<"_:b1", "ex:propNum", "30", DefaultGraph>> >> }

\* The target stores: what a store may hold of the member (its value, an
\* older value, its sub-entity, a blank node of it) and of another entity
\* with a blank node of the same property and value.
TargetQuads ==
    { <<"ex:Entity_1", "ex:propNum", "30", DefaultGraph>>,
      <<"ex:Entity_1", "ex:prop1", "true", DefaultGraph>>,
      <<"ex:Sub_1", "ex:propNum", "30", DefaultGraph>>,
      <<"ex:Entity_1", "ex:propBn", "_:t1", DefaultGraph>>,
      <<"_:t1", "ex:propNum", "30", DefaultGraph>>,
      <<"ex:Entity_2", "ex:propBn", "_:t2", DefaultGraph>>,
      <<"_:t2", "ex:propNum", "30", DefaultGraph>>,
      <<"ex:Entity_2", "ex:propNum", "30", DefaultGraph>> }

ExecCalls ==
    [fn : {"UPDATE", "DELETE member"}, quads : ExecMembers, target : SUBSET TargetQuads]

\* A Delete with the shape of the member configured: the record holds the
\* rdf:type of ex:Entity_1; the target store may hold its type, a property
\* outside the shape, a sub-entity for each property path of the shape,
\* and a quad of another entity.
TypedDeleteRecord == << <<"ex:Entity_1", RDF_type, "ex:ClassA", DefaultGraph>> >>

TypedTargetQuads ==
    { <<"ex:Entity_1", RDF_type, "ex:ClassA", DefaultGraph>>,
      <<"ex:Entity_1", "ex:propNum", "30", DefaultGraph>>,
      <<"ex:Entity_1", "ex:p1", "ex:Sub_1", DefaultGraph>>,
      <<"ex:Sub_1", "ex:propNum", "30", DefaultGraph>>,
      <<"ex:Entity_1", "ex:p2", "ex:Sub_2", DefaultGraph>>,
      <<"ex:Sub_2", "ex:propNum", "30", DefaultGraph>>,
      <<"ex:Entity_2", "ex:propNum", "30", DefaultGraph>> }

TypedDeleteCalls ==
    [fn : {"DELETE typed member"}, quads : {TypedDeleteRecord},
     memberShapes : {<<ShapeA>>, <<ShapeB, ShapeA>>}, target : SUBSET TypedTargetQuads]

ExecInit ==
    /\ NoProcessor
    /\ call \in ExecCalls \cup TypedDeleteCalls
    /\ result = NoResult
    /\ requests = <<>>

\* The store the next run starts from.
CurrentTarget == IF result.value = <<>> THEN call.target ELSE result.value[Len(result.value)]

\* The query of an Update is run, for the first or for the second time.
runUPDATE ==
    /\ call.fn = "UPDATE" /\ ~result.done
    /\ result' = [done |-> Len(result.value) = 1,
                  value |-> Append(result.value, executeUPDATE(call.quads, CurrentTarget)),
                  err |-> "none"]
    /\ UNCHANGED <<config, transactionMembers, written, log, pc, err, writerClosed, call,
                   requests>>
    /\ UNCHANGED loopVars

\* The query of a Delete is run.
runDELETE ==
    /\ call.fn = "DELETE member"
    /\ Returns(<< executeDELETE(call.quads, "ex:Entity_1", call.target) >>, "none")
    /\ UNCHANGED requests

\* DELETE(store, [memberIRI], memberShapes) run on target.
executeDELETEWithShapes(quads, memberIRI, memberShapes, target) ==
    LET d == DELETEText(quads, << memberIRI >>, memberShapes, 0,
                        [err |-> "none", deleteBuilder |-> <<>>, whereBuilder |-> <<>>])
    IN  executeDelete(joinLines(d.deleteBuilder, 1), joinLines(d.whereBuilder, 1), target)

\* The query of a Delete with shapes is run.
runDELETEWithShapes ==
    /\ call.fn = "DELETE typed member"
    /\ Returns(<< executeDELETEWithShapes(call.quads, "ex:Entity_1", call.memberShapes,
                                          call.target) >>, "none")
    /\ UNCHANGED requests

ExecNext == runUPDATE \/ runDELETE \/ runDELETEWithShapes

ExecSpec == ExecInit /\ [][ExecNext]_vars

-----------------------------------------------------------------------------
(* The dispatch of the queries: "Execute the update query" of the three     *)
(* record loops, with the HTTP execution and the writer pushes as steps of  *)
(* their own.  The synthesis is left out: a record comes with the query it  *)
(* was turned into, a text of q.statements statements, or with none.        *)
(*   log[k].http    "none" | "running" | "ok" | "failed"                    *)
(*   log[k].writer  "none" | "pending" | "done"                             *)
(*   log[k].toPush  the texts still to push to the writer                   *)
(*   log[k].sent    the number of HTTP requests the execution took          *)
(*   written        the texts handed to the writer, with their record       *)

\* The largest number of statements of a synthesized query.
MaxStatements == 2
\* The number of records dispatched.
MaxDispatched == 2

DispatchConfigs ==
    { c \in [variant : {"sparqlIngest", "transform2", "transform3"},
             sparqlWriter : BOOLEAN, graphStoreUrl : BOOLEAN,
             measurePerformance : BOOLEAN,
             failureIsFatal : {"true", "false", Undefined},
             forVirtuoso : BOOLEAN] :
        \* src/src/SPARQLIngest.ts has neither option
        /\ c.variant = "sparqlIngest" => (~c.measurePerformance /\ ~c.forVirtuoso)
        /\ ~c.measurePerformance => c.failureIsFatal = Undefined }

DispatchQueries == [fold : BOOLEAN, statements : 1..MaxStatements, overOneMB : BOOLEAN]
NoDispatchQuery == [fold |-> FALSE, statements |-> 0, overOneMB |-> FALSE]

statementsOf(n, q) == [ j \in 1..q.statements |-> [rec |-> n, st |-> j] ]

\* A fold handed over statement by statement.
queryOf_spread(variant, n, q) ==
    IF variant = "sparqlIngest" THEN << statementsOf(n, q) >>
    ELSE queryArray(statementsOf(n, q))

\* The value of the variable query: a string in src/src/SPARQLIngest.ts, an
\* array in part_002 and part_003, where the folded query of a transaction is
\* the one element [this.createTransactionQueries(...)].
queryOf(variant, n, q) ==
    IF variant = "sparqlIngest" \/ q.fold THEN << statementsOf(n, q) >>
    ELSE queryArray(statementsOf(n, q))

\* What is pushed to the writer: the query, the joined query, or for
\* Virtuoso in part_003 the elements one by one.
writerTexts(cfg, query) ==
    IF cfg.variant = "transform3" /\ cfg.forVirtuoso THEN query
    ELSE << joinQuery(query, 1) >>

\* A catch that never rethrows.
rethrows_never(cfg) == FALSE

\* catch (error): !measurePerformance || measurePerformance.failureIsFatal;
\* the Promise.all of src/src/SPARQLIngest.ts has no catch.
rethrows(cfg) ==
    cfg.variant = "sparqlIngest" \/ ~cfg.measurePerformance \/ cfg.failureIsFatal = "true"

DispatchInit ==
    /\ config \in DispatchConfigs
    /\ transactionMembers = <<>>
    /\ written = <<>>
    /\ log = <<>>
    /\ pc = "running"
    /\ err = "none"
    /\ writerClosed = FALSE
    /\ call = NoCall
    /\ result = NoResult
    /\ requests = <<>>
    /\ NoLoopState

\* An iteration that is over as soon as the request has returned.
Settled_httpOnly(e) == e.http # "running"

\* Nothing of the record is in flight.
Settled(e) == e.http # "running" /\ e.writer # "pending"

startDispatch(n, q) ==
    LET query == queryOf(config.variant, n, q)
        texts == writerTexts(config, query)
        startHttp == q.statements > 0 /\ config.graphStoreUrl
        \* Promise.all([sparqlWriter.push(query), doSPARQLRequest(...)]) in
        \* src/src/SPARQLIngest.ts; await doSPARQLRequest, then await
        \* sparqlWriter.string in part_002 and part_003
        startWriter == /\ q.statements > 0 /\ config.sparqlWriter
                       /\ (config.variant = "sparqlIngest" \/ ~config.graphStoreUrl)
    IN  /\ log' = Append(log, [rec |-> n, fold |-> q.fold,
                               query |-> IF q.statements > 0 THEN query ELSE <<>>,
                               http |-> IF startHttp THEN "running" ELSE "none",
                               writer |-> IF startWriter THEN "pending" ELSE "none",
                               toPush |-> IF startWriter THEN Tail(texts) ELSE <<>>,
                               sent |-> 0])
        /\ written' = IF startWriter THEN Append(written, [rec |-> n, text |-> Head(texts)])
                      ELSE written
        /\ call' = IF startHttp
                   THEN [fn |-> "doSPARQLRequest", query |-> query, updated |-> {},
                         forVirtuoso |-> config.forVirtuoso, overOneMB |-> q.overOneMB]
                   ELSE NoCall
        /\ result' = NoResult
        /\ requests' = <<>>
        /\ UNCHANGED <<config, transactionMembers, pc, err, writerClosed>>
        /\ UNCHANGED loopVars

\* A loop that takes the next record while the last one is in flight.
receiveRecord_noWait ==
    /\ pc = "running" /\ Len(log) < MaxDispatched
    /\ \E q \in DispatchQueries \cup {NoDispatchQuery} : startDispatch(Len(log) + 1, q)

\* The next record of the stream: for await takes it once the iteration
\* before it is over.
receiveRecord ==
    /\ pc = "running" /\ Len(log) < MaxDispatched
    /\ log # <<>> => Settled(log[Len(log)])
    /\ \E q \in DispatchQueries \cup {NoDispatchQuery} : startDispatch(Len(log) + 1, q)

\* await doSPARQLRequest(...) returns or throws.
requestReturns ==
    /\ log # <<>> /\ log[Len(log)].http = "running" /\ result.done
    /\ LET n == Len(log)
           failed == result.err # "none"
           fatal == failed /\ rethrows(config)
           texts == writerTexts(config, log[n].query)
           startWriter == /\ config.sparqlWriter /\ config.variant # "sparqlIngest"
                          /\ ~fatal
       IN  /\ log' = [log EXCEPT ![n].http = IF failed THEN "failed" ELSE "ok",
                                 ![n].sent = Len(requests),
                                 ![n].writer = IF startWriter THEN "pending" ELSE @,
                                 ![n].toPush = IF startWriter THEN Tail(texts) ELSE @]
           /\ written' = IF startWriter
                         THEN Append(written, [rec |-> n, text |-> Head(texts)])
                         ELSE written
           /\ requestsPerformance' =
                 IF ~config.measurePerformance \/ fatal THEN requestsPerformance
                 ELSE Append(requestsPerformance, IF failed THEN -1 ELSE 0)
           /\ pc' = IF fatal THEN "error" ELSE pc
           /\ err' = IF fatal THEN result.err ELSE err
    /\ UNCHANGED <<config, transactionMembers, writerClosed, call, result, requests,
                   memberBatch, batchCount>>

\* await sparqlWriter.string(...) / push(...) returns.
writerPushed ==
    /\ log # <<>> /\ log[Len(log)].writer = "pending"
    /\ LET n == Len(log)
       IN  IF log[n].toPush # <<>>
           THEN /\ written' = Append(written, [rec |-> n, text |-> Head(log[n].toPush)])
                /\ log' = [log EXCEPT ![n].toPush = Tail(@)]
           ELSE /\ written' = written
                /\ log' = [log EXCEPT ![n].writer = "done"]
    /\ UNCHANGED <<config, transactionMembers, pc, err, writerClosed, call, result, requests>>
    /\ UNCHANGED loopVars

\* An end of the stream that does not wait for the record in flight.
endOfStream_early ==
    /\ pc = "running"
    /\ pc' = "ended"
    /\ writerClosed' = config.sparqlWriter
    /\ UNCHANGED <<config, transactionMembers, written, log, err, call, result, requests>>
    /\ UNCHANGED loopVars

\* The stream ends: sparqlWriter.end() / close().
endOfStream ==
    /\ pc = "running"
    /\ log # <<>> => Settled(log[Len(log)])
    /\ pc' = "ended"
    /\ writerClosed' = config.sparqlWriter
    /\ UNCHANGED <<config, transactionMembers, written, log, err, call, result, requests>>
    /\ UNCHANGED loopVars

DispatchNext ==
    \/ receiveRecord
    \/ sendRequest
    \/ receiveResponse
    \/ requestReturns
    \/ writerPushed
    \/ endOfStream

DispatchSpec == DispatchInit /\ [][DispatchNext]_vars

-----------------------------------------------------------------------------
(* Properties *)

\* A record was handled in this step; Handling is that record's log entry.
RecordStep == Len(log') = Len(log) + 1
Handling == log'[Len(log')]

\* The query the step wrote, or the empty query when it wrote none.
WrittenNow == IF Len(written') > Len(written) THEN written'[Len(written')] ELSE <<>>

\* query writes a payload quad of member m.
Inserts(query, m) == \E x \in QuadsOf(query) : x[1] = m /\ x[2] = "ex:propNum"

\* Every quad the processor holds or has written out.
AllWrittenQuads == UNION { QuadsOf(written[k]) : k \in 1..Len(written) }
AllWrittenSubjects == UNION { DeletedSubjectsOf(written[k]) : k \in 1..Len(written) }

\* r carries a transaction id that is not the id of some buffered member.
Mismatching(members, r) ==
    /\ r.tx # NoTx
    /\ \E k \in 1..Len(members) : members[k].transactionId # r.tx

\* C1: while the buffer is non-empty, a member whose transaction id differs
\* from the id of the buffered members raises an error and is not appended,
\* whether it carries the end marker or not.
C1_MismatchIsRejected ==
    [][ (RecordStep /\ config.transactionConfig
            /\ Mismatching(transactionMembers, Handling.rec))
        => (Handling.result = "error" /\ transactionMembers' = transactionMembers) ]_vars

\* C2: all entries of the transaction buffer have the same transactionId.
C2_OneOpenTransaction ==
    \A j, k \in 1..Len(transactionMembers) :
        transactionMembers[j].transactionId = transactionMembers[k].transactionId

\* The members of the transaction the step closes that carry change type v:
\* the buffered ones and the end-marked record itself.
Tagged(members, r, v) ==
    { members[k].memberId : k \in { j \in 1..Len(members) :
            firstQuad(members[j].store, changeTypePath)[3] = v } }
    \cup (IF r.ct = v THEN {MemberOf(r.n)} ELSE {})

\* The step handles the end-marked member of a transaction without an error.
ClosingStep ==
    /\ RecordStep /\ config.transactionConfig
    /\ Handling.rec.tx # NoTx /\ Handling.rec.last
    /\ Handling.result # "error"

\* C3: with change semantics, the folded query of a closing transaction
\* inserts every Create-tagged member, deletes and inserts every Update-tagged
\* member and deletes every Delete-tagged member, whatever the mix of kinds.
C3_FoldCoversEveryKind ==
    [][ (ClosingStep /\ config.changeSemantics)
        => /\ \A m \in Tagged(transactionMembers, Handling.rec, createValue) :
                 Inserts(WrittenNow, m)
           /\ \A m \in Tagged(transactionMembers, Handling.rec, updateValue) :
                 Inserts(WrittenNow, m) /\ m \in DeletedSubjectsOf(WrittenNow)
           /\ \A m \in Tagged(transactionMembers, Handling.rec, deleteValue) :
                 m \in DeletedSubjectsOf(WrittenNow) ]_vars

\* C4: a member with a transaction id and no end marker writes nothing and is
\* appended to the buffer; the one query of a transaction is written when its
\* end-marked member is handled, and no query holds buffered members earlier.
C4_OneQueryAtTheEnd ==
    [][ (RecordStep /\ config.transactionConfig /\ Handling.result # "error")
        => /\ (Handling.rec.tx # NoTx /\ ~Handling.rec.last)
                => /\ written' = written
                   /\ Len(transactionMembers') = Len(transactionMembers) + 1
                   /\ transactionMembers'[Len(transactionMembers')].memberId
                         = MemberOf(Handling.rec.n)
           /\ (Handling.rec.tx # NoTx /\ Handling.rec.last)
                => Len(written') = Len(written) + 1
           /\ (\E k \in 1..Len(transactionMembers) :
                    \/ Inserts(WrittenNow, transactionMembers[k].memberId)
                    \/ transactionMembers[k].memberId \in DeletedSubjectsOf(WrittenNow))
                => (Handling.rec.tx # NoTx /\ Handling.rec.last) ]_vars

\* Record i of the log belongs to a transaction that was closed before
\* record j was handled.
FinishedBefore(i, j) ==
    /\ i < j /\ log[i].rec.tx # NoTx
    /\ \E c \in i..(j - 1) :
          log[c].rec.tx # NoTx /\ log[c].rec.last /\ log[c].result # "error"

\* C5: after the query of a closed transaction was synthesized the buffer is
\* empty, with and without change semantics, and the quads of a finished
\* transaction appear in no later query.
C5_BufferEmptiedOnClose ==
    /\ (config.transactionConfig /\ Len(log) > 0
          /\ log[Len(log)].rec.tx # NoTx /\ log[Len(log)].rec.last
          /\ log[Len(log)].result # "error")
       => transactionMembers = <<>>
    /\ config.transactionConfig =>
          \A i, j \in 1..Len(log) :
             (FinishedBefore(i, j) /\ log[j].q > 0)
                => ~Inserts(written[log[j].q], MemberOf(i))

\* C6: when the stream ends with a non-empty transaction buffer the processor
\* reports an error.
C6_UnfinishedTransactionReported ==
    (pc = "ended" /\ Len(transactionMembers) > 0) => err # "none"

\* The query written for record r holds r's payload: deletes its member for a
\* Delete, writes its payload quad otherwise.
Covered(query, r) ==
    IF config.changeSemantics /\ r.ct = deleteValue
    THEN MemberOf(r.n) \in DeletedSubjectsOf(query)
    ELSE Inserts(query, MemberOf(r.n))

\* C7: every record handled without an error is either appended to the
\* buffer or has its payload in the query written for it.
C7_NoSilentDrop ==
    \A i \in 1..Len(log) :
        \/ log[i].result \in {"error", "buffered"}
        \/ log[i].q > 0 /\ Covered(written[log[i].q], log[i].rec)

IsSDSWrapper(q) == q[2] \in {SDS_stream, SDS_payload} \/ q[4] = SDS_DataDescription

\* C8: no SDS wrapper triple (sds:stream, sds:payload, the metadata graph) is
\* in a buffered store or in a written query, nor is the wrapper's blank node
\* the subject of a delete pattern.
C8_NoSDSWrapperLeaks ==
    /\ \A q \in AllWrittenQuads \cup BufferedQuads(transactionMembers) : ~IsSDSWrapper(q)
    /\ "_:b0" \notin AllWrittenSubjects

\* C8 witness: a transaction of SDS records was folded and written.
C8_Witness ==
    /\ Len(log) >= 2 /\ Len(written) >= 1
    /\ log[1].rec.sds /\ log[1].result = "buffered"
    /\ log[2].rec.sds /\ log[2].rec.last /\ log[2].q = 1
    /\ Inserts(written[1], MemberOf(1)) /\ Inserts(written[1], MemberOf(2))

IsTransactionMarker(q) == q[2] \in {transactionIdPath, transactionEndPath}

\* C9: with a transaction configuration, no transaction-id triple and no
\* end-marker triple is in a buffered store or in a written query.
C9_NoTransactionMarkerLeaks ==
    config.transactionConfig =>
        \A q \in AllWrittenQuads \cup BufferedQuads(transactionMembers) :
            ~IsTransactionMarker(q)

\* C10: with change semantics, no change-type triple is in the data a written
\* query writes.
C10_NoChangeTypeWritten ==
    config.changeSemantics => \A q \in AllWrittenQuads : q[2] # changeTypePath

\* Some buffered member carries a change type that is none of the three
\* configured values.
UnrecognizedIn(members) ==
    \E k \in 1..Len(members) :
        firstQuad(members[k].store, changeTypePath)[3] = otherValue

\* C11: with change semantics, a record with an unrecognized change type
\* that is not put on the buffer raises 'Unrecognized change type value' and
\* writes no query; so does the end-marked member of a transaction that has a
\* buffered member with such a value (any error of an earlier member aside).
C11_UnrecognizedIsFatal ==
    [][ (RecordStep /\ config.changeSemantics)
        => /\ (Handling.rec.ct = otherValue /\ Handling.result # "buffered")
                => /\ Handling.result = "error"
                   /\ Handling.err = "Unrecognized change type value"
                   /\ written' = written
           /\ (config.transactionConfig /\ Handling.rec.tx # NoTx /\ Handling.rec.last
                 /\ UnrecognizedIn(transactionMembers))
                => /\ Handling.result = "error"
                   /\ written' = written ]_vars

\* query is an Update: one DELETE/WHERE statement followed by INSERT DATA
\* statements only.
IsUpdate(query) ==
    /\ Len(query) >= 2
    /\ query[1].op = "DELETE WHERE"
    /\ \A k \in 2..Len(query) : query[k].op = "INSERT DATA"

\* C12: without change semantics every record that is dispatched (handled
\* without an error and not buffered) writes a query, and every written query
\* is an Update.
C12_SyncModeAlwaysUpdates ==
    ~config.changeSemantics =>
        /\ \A i \in 1..Len(log) :
              log[i].result \in {"error", "buffered"} \/ log[i].q > 0
        /\ \A k \in 1..Len(written) : IsUpdate(written[k])

\* C12 witness: without change semantics a single record and the closing
\* member of a transaction were both written.
C12_Witness ==
    /\ ~config.changeSemantics /\ Len(log) = 3 /\ Len(written) = 2
    /\ log[1].rec.tx = NoTx /\ log[1].q = 1
    /\ log[2].result = "buffered"
    /\ log[3].rec.last /\ log[3].q = 2
    /\ IsUpdate(written[1]) /\ IsUpdate(written[2])

\* C13: a record without the SDS payload triple raises no error, leaves the
\* transaction buffer as it is and writes an Update holding its quads.
C13_NonSDSIsUpdated ==
    [][ (RecordStep /\ ~Handling.rec.sds)
        => /\ Handling.result = "query"
           /\ transactionMembers' = transactionMembers
           /\ IsUpdate(WrittenNow)
           /\ Inserts(WrittenNow, MemberOf(Handling.rec.n)) ]_vars

\* The chunks a finished call of splitStore returned.
SplitDone == call.fn = "splitStore" /\ result.done
Chunks == result.value

\* C14: the chunks of splitStore together hold exactly the quads of the input
\* store, and no quad is in two chunks.
C14_SplitIsAPartition ==
    SplitDone =>
        /\ UNION { Chunks[k] : k \in 1..Len(Chunks) } = SetOf(call.quads)
        /\ \A j, k \in 1..Len(Chunks) : j # k => Chunks[j] \cap Chunks[k] = {}

\* The chunks in which blank node b occurs as subject or as object.
ChunksOf(b) ==
    { k \in 1..Len(Chunks) : \E q \in Chunks[k] : q[1] = b \/ q[3] = b }

\* C15: all quads in which a blank node occurs are in one chunk.
C15_BlankNodeNotTorn ==
    SplitDone => \A b \in BlankNodes : Cardinality(ChunksOf(b)) <= 1

\* C16: no chunk holds more than threshold quads.
C16_ChunkWithinThreshold ==
    SplitDone => \A k \in 1..Len(Chunks) : Cardinality(Chunks[k]) <= call.threshold

\* A finished call of DELETE that did not throw, and its per-member fragments.
DeleteDone == call.fn = "DELETE" /\ result.done /\ result.err = "none"
WhereOf(k) == result.value.whereBuilder[k]
TemplateOf(k) == result.value.deleteBuilder[k]

IsTripleLine(l) == l.line = "triple"
TermsOf(fragment) ==
    UNION { {fragment[n].s, fragment[n].p, fragment[n].o} : n \in 1..Len(fragment) }
VariablesOf(fragment) == { t \in TermsOf(fragment) : t[1] = "var" }
IndicesOf(fragment) == { t[3] : t \in VariablesOf(fragment) }

\* l is a wildcard on its subject: X ?p_i ?o_i
IsWildcard(l) ==
    /\ l.line = "triple" /\ l.p[1] = "var" /\ l.p[2] = "p" /\ l.o = Var("o", l.p[3])

\* C18: in a DELETE for several members no variable index is used by the
\* patterns of two members, and within a member's patterns every wildcard
\* has an index of its own.
C18_FreshVariablesPerMember ==
    DeleteDone =>
        /\ \A j, k \in 1..Len(call.memberIRIs) :
              j # k => /\ IndicesOf(WhereOf(j)) \cap IndicesOf(WhereOf(k)) = {}
                       /\ IndicesOf(TemplateOf(j)) \cap IndicesOf(TemplateOf(k)) = {}
        /\ \A k \in 1..Len(call.memberIRIs) :
              \A a, b \in 1..Len(WhereOf(k)) :
                 (a # b /\ IsWildcard(WhereOf(k)[a]) /\ IsWildcard(WhereOf(k)[b]))
                    => WhereOf(k)[a].p[3] # WhereOf(k)[b].p[3]

\* The configured shapes whose target class is the rdf:type of member k.
TypeOfMember(k) == memberTypeOf(call.store, call.memberIRIs[k])
ShapesFor(k) ==
    { n \in 1..Len(call.memberShapes) : call.memberShapes[n].targetClass = TypeOfMember(k) }

\* fragment is the bare wildcard of member m followed by one pair
\* <m> <path> ?subEnt_i . ?subEnt_i ?p_i ?o_i . per path, in order.
IsShapePattern(fragment, m, paths) ==
    /\ Len(fragment) = 1 + 2 * Len(paths)
    /\ IsWildcard(fragment[1]) /\ fragment[1].s = Iri(m)
    /\ \A n \in 1..Len(paths) :
          LET i == fragment[2 * n].o[3]
          IN  /\ fragment[2 * n] = Triple(Iri(m), Iri(paths[n]), Var("subEnt", i))
              /\ fragment[2 * n + 1] = Triple(Var("subEnt", i), Var("p", i), Var("o", i))

\* C19: with shapes configured and the member's rdf:type in the store (the
\* type of a configured shape), the WHERE pattern and the DELETE template of
\* the member are the same, have no OPTIONAL, and are the bare wildcard plus
\* one pair per property of the shape of that type, in order, nothing else.
C19_TypedDeleteUsesItsShape ==
    DeleteDone =>
        \A k \in 1..Len(call.memberIRIs) :
           (Len(call.memberShapes) > 0 /\ TypeOfMember(k) # Undefined
              /\ ShapesFor(k) # {})
              => /\ WhereOf(k) = TemplateOf(k)
                 /\ \A n \in 1..Len(WhereOf(k)) : IsTripleLine(WhereOf(k)[n])
                 /\ \A n \in ShapesFor(k) :
                       IsShapePattern(WhereOf(k), call.memberIRIs[k],
                                      call.memberShapes[n].paths)

\* C19 witness: two shapes are configured and a member of the type of the
\* second one was formatted.
C19_Witness ==
    /\ DeleteDone /\ call.memberShapes = <<ShapeA, ShapeB>>
    /\ Len(call.memberIRIs) = 2
    /\ TypeOfMember(1) = "ex:ClassB" /\ TypeOfMember(2) = "ex:ClassA"
    /\ Len(WhereOf(1)) = 3 /\ Len(WhereOf(2)) = 5

\* The positions of the lines of kind mark before position n of fragment.
MarksBefore(fragment, n, mark) == { a \in 1..(n - 1) : fragment[a].line = mark }

StatementsOfCall == joinQuery(call.query, 1)

\* st is an INSERT DATA statement of the Update of the call.
IsInsertOfUpdate(st) == st.op = "INSERT DATA" /\ st.quads \cap call.updated # {}

HasSignedInteger(query) ==
    \E q \in QuadsOf(query) : IsIntegerLiteral(q[3]) /\ startsWithPlus(q[3])

\* C21: no query handed to the writer, whatever path synthesized it, holds an
\* xsd:integer literal whose lexical form begins with '+'.
C21_NoSignedIntegerWritten ==
    \A k \in 1..Len(written) : ~HasSignedInteger(written[k])

\* The place of record k in the performance record: one entry per record
\* whose HTTP execution has returned.
PerformanceIndex(k) == Cardinality({ j \in 1..k : log[j].http \in {"ok", "failed"} })

NonFatalConfigured == config.measurePerformance /\ config.failureIsFatal # "true"

C24_DispatchesAreConcurrent ==
    (config.sparqlWriter /\ config.graphStoreUrl) =>
        \A k \in 1..Len(log) :
            log[k].http = "running" => log[k].writer # "none"

\* The texts the writer got of record k.
PushesOf(k) == { i \in 1..Len(written) : written[i].rec = k }

\* C27: the folded query of a transaction goes out whole: one HTTP request
\* holds all its statements, and the writer gets it in one push.
C27_FoldIsOneQuery ==
    \A k \in 1..Len(log) :
        log[k].fold =>
            /\ log[k].http \in {"ok", "failed"} => log[k].sent = 1
            /\ (k = Len(log) /\ log[k].http # "none") =>
                  /\ Len(requests) <= 1
                  /\ \A i \in 1..Len(requests) :
                        requests[i].body = joinQuery(log[k].query, 1)
            /\ Cardinality(PushesOf(k)) <= 1
            /\ \A i \in PushesOf(k) : written[i].text = joinQuery(log[k].query, 1)
            /\ log[k].writer = "done" => Cardinality(PushesOf(k)) = 1

\* C27 witness: for Virtuoso, a fold of several statements over 1 MB was sent
\* and pushed.
C27_Witness ==
    /\ config.forVirtuoso /\ Len(log) >= 1
    /\ log[1].fold /\ log[1].http = "ok" /\ log[1].writer = "done"
    /\ call.overOneMB /\ Len(written[1].text) > 1

\* The graph a statement works on: its WITH <graph>, or the graph of the
\* quads it writes out (part_003 moves the quads to the target graph).
GraphsOf(st) ==
    IF st.graph # Undefined THEN {st.graph}
    ELSE IF st.quads = {} THEN {Undefined}
    ELSE { IF x[4] = DefaultGraph THEN Undefined ELSE x[4] : x \in st.quads }

\* The graphs the query of the k-th record may work on.
ExpectedGraphs(k) ==
    IF config.memberIsGraph THEN { MemberOf(j) : j \in 1..k }
    ELSE {config.targetNamedGraph}

\* C25: the graph of a query generated for an SDS member is the member IRI
\* when memberIsGraph is set, otherwise targetNamedGraph when it is set,
\* otherwise none; with memberIsGraph no query works on targetNamedGraph, the
\* folded query of a transaction included.
C25_NamedGraphResolution ==
    \A k \in 1..Len(log) :
        (log[k].q > 0 /\ log[k].rec.sds) =>
            \A n \in 1..Len(written[log[k].q]) :
                LET st == written[log[k].q][n]
                IN  IF config.variant = "transform3" /\ st.op = "DELETE WHERE"
                    THEN st.graph = Undefined
                    ELSE GraphsOf(st) \subseteq ExpectedGraphs(k)

\* The node shapes of the shape document of the call, and those of them no
\* quad of the document has as its object.
NodeShapesOfCall ==
    { q[1] : q \in { x \in call.memberShapes[1] : x[2] = RDF_type /\ x[3] = SH_NodeShape } }
UnreferencedOfCall ==
    { ns \in NodeShapesOfCall : \A q \in call.memberShapes[1] : q[3] # ns }
TargetClassesOf(ns) ==
    { q[3] : q \in { x \in call.memberShapes[1] : x[1] = ns /\ x[2] = SH_targetClass } }

\* The document has exactly one unreferenced node shape, with a target class.
WellFormedShape ==
    /\ Cardinality(UnreferencedOfCall) = 1
    /\ \A ns \in UnreferencedOfCall : TargetClassesOf(ns) # {}

\* C26: a shape document without a node shape, with no or with several
\* unreferenced node shapes, or whose main shape has no target class makes
\* the index build fail and no DELETE pattern is returned; the document with
\* one unreferenced node shape is indexed under the target class of it.
C26_ShapeIndexBuild ==
    (call.fn = "DELETE with shape documents" /\ result.done) =>
        IF WellFormedShape
        THEN /\ result.err \in {"none", "TypeError"}
             /\ \A ns \in UnreferencedOfCall :
                   /\ Len(result.value.shapeIndex) = 1
                   /\ result.value.shapeIndex[1] \in TargetClassesOf(ns)
        ELSE /\ result.err \notin {"none", "TypeError"}
             /\ result.value.deleteBuilder = <<>> /\ result.value.whereBuilder = <<>>

\* C26 witness: of two node shapes one is referred to by the other, and the
\* document was indexed under the target class of the other.
C26_Witness ==
    /\ call.fn = "DELETE with shape documents" /\ result.done /\ result.err = "none"
    /\ Cardinality(NodeShapesOfCall) = 2 /\ UnreferencedOfCall = {"ex:ShapeA"}
    /\ result.value.shapeIndex = << "ex:ClassA" >>
    /\ result.value.whereBuilder # <<>>

\* Two stores are the same up to the names of their blank nodes.
SameUpToBlankNodes(a, b) ==
    \E names \in Permutations(TargetBlankNodes) : renameQuads(a, names) = b

\* C28: running the query of an Update a second time leaves the target store
\* as the first run left it, up to the names of the blank nodes.
C28_UpdateIsIdempotent ==
    (call.fn = "UPDATE" /\ result.done) =>
        SameUpToBlankNodes(result.value[1], result.value[2])

\* What the target store holds of the member of the call: the quads of
\* ex:Entity_1 and of the blank node it refers to.
MemberQuadsIn(target) ==
    { q \in target : q[1] = "ex:Entity_1"
                     \/ <<"ex:Entity_1", "ex:propBn", q[1], DefaultGraph>> \in target }

\* C29: a Delete without shapes whose record holds all the member has in the
\* target store removes the quads of the member and of its blank node, and
\* no other quad.
C29_DeleteRemovesTheMemberOnly ==
    (/\ call.fn = "DELETE member" /\ result.done
     /\ Subjects(SetOf(call.quads)) \cap {"ex:Sub_1"} = {}
     /\ SameUpToBlankNodes(MemberQuadsIn(call.target),
                           renameQuads(SetOf(call.quads), "_:b1" :> "_:t1")))
        => result.value[1] = call.target \ MemberQuadsIn(call.target)

-----------------------------------------------------------------------------
(* part_003: SPARQLIngest.transform in Replication mode, without change     *)
(* semantics and without transactions.  The quads of the records are        *)
(* gathered in memberBatch and handed to doSPARQLRequest every              *)
(* memberBatchSize records and once more after the loop.                    *)
(*   log[k].rec     position of the record, or 0 for the flush              *)
(*   log[k].quads   the quads the record added to the batch                 *)
(*   log[k].count   batchCount after the record                             *)
(*   log[k].batch   memberBatch after the record                            *)
(*   log[k].req     the request issued for it (index in requests), or 0     *)
(*   requests[i]    [body, status] with status "running" | "ok" | "failed"  *)

MaxBatchSize == 2
MaxBatchRecords == 4
DefaultBatchSize == 100

ReplicationConfigs ==
    { c \in [variant : {"transform3"},
             memberBatchSize : 0..MaxBatchSize,
             targetNamedGraph : {Undefined, TargetGraph},
             measurePerformance : BOOLEAN,
             failureIsFatal : {"true", "false", Undefined}] :
        ~c.measurePerformance => c.failureIsFatal = Undefined }

\* init(): if (!this.config.memberBatchSize) this.config.memberBatchSize = 100;
\* 0 stands for a size that is not given (or given as 0).
batchSizeOf(cfg) ==
    IF cfg.memberBatchSize = 0 THEN DefaultBatchSize ELSE cfg.memberBatchSize

\* A record of the stream: with or without the SDS wrapper, holding quads
\* payload quads (none at all for an empty record or a bare wrapper).  The
\* first payload quad is the same in every record.
ReplicationRecords(n) == [n : {n}, sds : BOOLEAN, quads : 0..2]

ParseMember(r) ==
    (IF r.sds
        THEN { <<"_:b0", SDS_stream, "ex:sdsStream", SDS_DataDescription>>,
               <<"_:b0", SDS_payload, MemberOf(r.n), SDS_DataDescription>> }
        ELSE {})
    \cup (IF r.quads > 0 THEN { <<"ex:Entity_1", "ex:propNum", "+30", DefaultGraph>> } ELSE {})
    \cup (IF r.quads > 1 THEN { <<MemberOf(r.n), "ex:propStr", "true", "ex:graph_1">> } ELSE {})

\* store.getQuads(): the quads of a store one after the other.
RECURSIVE getQuads(_)
getQuads(store) ==
    IF store = {} THEN <<>>
    ELSE LET q == CHOOSE x \in store : TRUE
         IN  <<q>> \o getQuads(store \ {q})

\* The store of a record when it reaches "Check operation mode".
memberStore(cfg, r) ==
    LET quads == sanitizeQuads(assignTargetGraph(ParseMember(r), cfg))
        memberIRI == firstObject(quads, SDS_payload, SDS_DataDescription)
    IN  IF memberIRI = Undefined THEN quads ELSE removeSDSQuads(quads)

\* A batch sent only once it is over the size.
batchIsFull_over(count, cfg) == count > batchSizeOf(cfg)

\* if (this.batchCount < this.config.memberBatchSize!) continue;
batchIsFull(count, cfg) == ~(count < batchSizeOf(cfg))

\* doSPARQLRequest(this.memberBatch, ...): one request to the graph store
\* with the quads of the batch.
batchRequest(batch) == [body |-> batch, status |-> "running"]

ReplicationInit ==
    /\ config \in ReplicationConfigs
    /\ transactionMembers = <<>>
    /\ written = <<>>
    /\ log = <<>>
    /\ pc = "running"
    /\ err = "none"
    /\ writerClosed = FALSE
    /\ call = NoCall
    /\ result = NoResult
    /\ requests = <<>>
    /\ NoLoopState

\* One iteration of the loop up to the await of the request.
receiveMember ==
    /\ pc = "running" /\ Len(log) < MaxBatchRecords
    /\ \E r \in ReplicationRecords(Len(log) + 1) :
         LET quads == getQuads(memberStore(config, r))
             batch == memberBatch \o quads
             count == batchCount + 1
             full == batchIsFull(count, config)
         IN  /\ memberBatch' = batch
             /\ batchCount' = count
             /\ requests' = IF full THEN Append(requests, batchRequest(batch)) ELSE requests
             /\ pc' = IF full THEN "sending" ELSE pc
             /\ log' = Append(log, [rec |-> r.n, quads |-> quads, count |-> count,
                                    batch |-> batch,
                                    req |-> IF full THEN Len(requests) + 1 ELSE 0])
    /\ UNCHANGED <<config, transactionMembers, written, err, writerClosed, call, result,
                   requestsPerformance>>

\* A request after which the batch and its counter start anew, whatever
\* the answer.
batchRequestReturns_reset ==
    /\ pc \in {"sending", "flushing"}
    /\ \E ok \in BOOLEAN :
         LET fatal == ~ok /\ rethrows(config)
         IN  /\ requests' = [requests EXCEPT ![Len(requests)].status =
                                IF ok THEN "ok" ELSE "failed"]
             /\ requestsPerformance' =
                   IF ~config.measurePerformance \/ fatal THEN requestsPerformance
                   ELSE Append(requestsPerformance, IF ok THEN 0 ELSE -1)
             /\ batchCount' = IF fatal THEN batchCount ELSE 0
             /\ memberBatch' = IF fatal THEN memberBatch ELSE <<>>
             /\ pc' = IF fatal THEN "error"
                      ELSE IF pc = "sending" THEN "running" ELSE "ended"
             /\ err' = IF fatal THEN "request failed" ELSE err
    /\ UNCHANGED <<config, transactionMembers, written, log, writerClosed, call, result>>

\* await doSPARQLRequest(this.memberBatch, ...) returns or throws, in the
\* loop (then the next record is taken) or after it.
batchRequestReturns ==
    /\ pc \in {"sending", "flushing"}
    /\ \E ok \in BOOLEAN :
         LET fatal == ~ok /\ rethrows(config)
         IN  /\ requests' = [requests EXCEPT ![Len(requests)].status =
                                IF ok THEN "ok" ELSE "failed"]
             /\ requestsPerformance' =
                   IF ~config.measurePerformance \/ fatal THEN requestsPerformance
                   ELSE Append(requestsPerformance, IF ok THEN 0 ELSE -1)
             /\ batchCount' = IF ok THEN 0 ELSE batchCount
             /\ memberBatch' = IF ok THEN <<>> ELSE memberBatch
             /\ pc' = IF fatal THEN "error"
                      ELSE IF pc = "sending" THEN "running" ELSE "ended"
             /\ err' = IF fatal THEN "request failed" ELSE err
    /\ UNCHANGED <<config, transactionMembers, written, log, writerClosed, call, result>>

\* The stream ends: flush remaining member batch if any.
endOfMembers ==
    /\ pc = "running"
    /\ LET flush == Len(memberBatch) > 0
       IN  /\ requests' = IF flush THEN Append(requests, batchRequest(memberBatch))
                          ELSE requests
           /\ pc' = IF flush THEN "flushing" ELSE "ended"
           /\ log' = Append(log, [rec |-> 0, quads |-> <<>>, count |-> batchCount,
                                  batch |-> memberBatch,
                                  req |-> IF flush THEN Len(requests) + 1 ELSE 0])
    /\ UNCHANGED <<config, transactionMembers, written, err, writerClosed, call, result>>
    /\ UNCHANGED loopVars

ReplicationNext ==
    \/ receiveMember
    \/ batchRequestReturns
    \/ endOfMembers

ReplicationSpec == ReplicationInit /\ [][ReplicationNext]_vars

-----------------------------------------------------------------------------
(* Replication mode *)

RECURSIVE quadsOfLog(_)
quadsOfLog(l) == IF l = <<>> THEN <<>> ELSE Head(l).quads \o quadsOfLog(Tail(l))

RECURSIVE bodiesOf(_)
bodiesOf(reqs) == IF reqs = <<>> THEN <<>> ELSE Head(reqs).body \o bodiesOf(Tail(reqs))

MembersReceived == Cardinality({ k \in 1..Len(log) : log[k].rec # 0 })
AllRequestsSucceeded == \A i \in 1..Len(requests) : requests[i].status = "ok"
Ceiling(n, d) == (n + d - 1) \div d

\* A request with the batch is issued exactly for the records with which
\* the count reaches memberBatchSize.
IssuedWhenFull ==
    \A k \in 1..Len(log) :
        log[k].rec # 0 =>
            /\ (log[k].req # 0) <=> (log[k].count >= batchSizeOf(config))
            /\ log[k].req # 0 => requests[log[k].req].body = log[k].batch

\* After a request that succeeded the batch and its counter start anew.
ResetAfterRequest ==
    /\ \A k \in 2..Len(log) :
          (log[k-1].req # 0 /\ requests[log[k-1].req].status = "ok") =>
              /\ log[k].batch = log[k].quads
              /\ log[k].count = IF log[k].rec = 0 THEN 0 ELSE 1
    /\ (requests # <<>> /\ requests[Len(requests)].status = "ok"
        /\ log[Len(log)].req = Len(requests))
          => (batchCount = 0 /\ memberBatch = <<>>)

\* At the end of the stream one more request is issued if quads remain.
FlushedAtEnd ==
    \A k \in 1..Len(log) :
        log[k].rec = 0 =>
            /\ (log[k].req # 0) <=> (log[k].batch # <<>>)
            /\ log[k].req # 0 => requests[log[k].req].body = log[k].batch

QuadsRemain ==
    \E k \in 1..Len(log) :
        /\ log[k].rec # 0
        /\ k > MembersReceived - (MembersReceived % batchSizeOf(config))
        /\ log[k].quads # <<>>

WrittenOf(k) ==
    LET w == SelectSeq(written, LAMBDA e : e.rec = k)
    IN  [ i \in 1..Len(w) |-> w[i].text ]

\* The texts of record k have all reached the writer.
FullyWritten(k) ==
    log[k].query # <<>> => WrittenOf(k) = writerTexts(config, log[k].query)

InRecordOfCall(q) ==
    \E r \in SetOf(call.quads) :
        /\ r[1] = q[1] /\ r[2] = q[2]
        /\ r[3] = q[3] \/ (isBlankNode(r[3]) /\ q[3] \in TargetBlankNodes)

NamedSubjectsOfCall == { s \in Subjects(SetOf(call.quads)) : ~isBlankNode(s) }

\* C33: after the query of an Update was run on a target store, the store
\* holds no quad it held before whose subject is a named subject of the
\* record, unless the record holds that quad too.
C33_UpdateOverwrites ==
    (call.fn = "UPDATE" /\ result.value # <<>>) =>
        \A q \in call.target \cap result.value[1] :
            q[1] \in NamedSubjectsOfCall => InRecordOfCall(q)

\* The quads of ex:Entity_1 and of the sub-entities it refers to through a
\* property path of its shape.
OwnAndReachable(target) ==
    { q \in target :
        \/ q[1] = "ex:Entity_1"
        \/ \E path \in {"ex:p1", "ex:p2"} :
              <<"ex:Entity_1", path, q[1], DefaultGraph>> \in target }

\* C34: a Delete with the shape of the member's rdf:type, run on a target
\* store where the member has quads of its own and a sub-entity for one
\* property path of the shape but no value for the other, removes the quads
\* of the member and of that sub-entity.
C34_TypedDeleteWithMissingPath ==
    (/\ call.fn = "DELETE typed member" /\ result.done
     /\ \E q \in call.target : q[1] = "ex:Entity_1" /\ q[2] \notin {"ex:p1", "ex:p2"}
     /\ <<"ex:Entity_1", "ex:p1", "ex:Sub_1", DefaultGraph>> \in call.target
     /\ <<"ex:Sub_1", "ex:propNum", "30", DefaultGraph>> \in call.target
     /\ <<"ex:Entity_1", "ex:p2", "ex:Sub_2", DefaultGraph>> \notin call.target)
        => result.value[1] \cap OwnAndReachable(call.target) = {}

\* C35: with change semantics configured, an SDS record without a triple of
\* the change-type predicate that is not put in the transaction buffer ends
\* in an error and no query is written for it.
C35_MissingChangeTypeIsAnError ==
    \A k \in 1..Len(log) :
        (/\ config.changeSemantics
         /\ log[k].rec.sds /\ log[k].rec.ct = NoChange
         /\ log[k].result # "buffered")
            => (log[k].result = "error" /\ log[k].q = 0)

-----------------------------------------------------------------------------
(* createTransactionQueries called on its own, with a buffer whose members  *)
(* arrive in any order of change types and may name the same member IRI     *)
(* more than once.  The payload of the k-th buffered member is one quad     *)
(* with the value FoldValues[k].                                            *)

MaxFoldMembers == 3
FoldValues == <<"ex:v1", "ex:v2", "ex:v3", "ex:v4">>

FoldMemberKinds ==
    [memberId : {"ex:Entity_1", "ex:Entity_2"}, ct : {createValue, updateValue, deleteValue}]

foldPayload(ms, k) == <<ms[k].memberId, "ex:prop1", FoldValues[k], DefaultGraph>>

foldBuffer(ms) ==
    [ k \in 1..Len(ms) |->
        TransactionMember(ms[k].memberId, "transact_1",
            { <<ms[k].memberId, changeTypePath, ms[k].ct, DefaultGraph>>,
              foldPayload(ms, k) }) ]

FoldCalls ==
    UNION { [fn : {"createTransactionQueries"},
             variant : {"sparqlIngest", "transform2", "transform3"},
             members : [1..len -> FoldMemberKinds]] : len \in 1..MaxFoldMembers }

FoldInit ==
    /\ NoProcessor
    /\ call \in FoldCalls
    /\ result = NoResult
    /\ requests = <<>>

callCreateTransactionQueries ==
    /\ call.fn = "createTransactionQueries"
    /\ LET cfg == [config EXCEPT !.variant = call.variant]
           f == IF call.variant = "transform3"
                THEN createTransactionQueries3(foldBuffer(call.members), cfg)
                ELSE createTransactionQueries(foldBuffer(call.members), cfg)
       IN  Returns(f.query, f.err)
    /\ UNCHANGED requests

FoldNext == callCreateTransactionQueries

FoldSpec == FoldInit /\ [][FoldNext]_vars

\* What a statement of a folded query is: the INSERT DATA of the creates,
\* the DELETE/WHERE or the INSERT DATA of the updates, a DELETE of the
\* deletes.
IsUpdateDelete(q, i) ==
    q[i].op = "DELETE WHERE" /\ i < Len(q) /\ q[i + 1].op = "INSERT DATA"
IsUpdateInsert(q, i) ==
    q[i].op = "INSERT DATA" /\ i > 1 /\ q[i - 1].op = "DELETE WHERE"
IsCreateInsert(q, i) == q[i].op = "INSERT DATA" /\ ~IsUpdateInsert(q, i)
IsDeleteOfDeletes(q, i) == q[i].op = "DELETE WHERE" /\ ~IsUpdateDelete(q, i)

\* C36: the folded query of a transaction holds its operations in the order
\* creates, updates, deletes whatever the order of the members; when a member
\* IRI is Delete-tagged first and Create-tagged later, the query holds the
\* INSERT DATA of the create and, after it, a DELETE of that member.
C36_FoldOrderCreatesUpdatesDeletes ==
    (call.fn = "createTransactionQueries" /\ result.done /\ result.err = "none") =>
        LET q == result.value
            ms == call.members
        IN  /\ \A i, j \in 1..Len(q) :
                  i < j => /\ IsCreateInsert(q, j) => IsCreateInsert(q, i)
                           /\ IsDeleteOfDeletes(q, i) => IsDeleteOfDeletes(q, j)
            /\ \A d, c \in 1..Len(ms) :
                  (/\ d < c /\ ms[d].memberId = ms[c].memberId
                   /\ ms[d].ct = deleteValue /\ ms[c].ct = createValue)
                     => \E i, j \in 1..Len(q) :
                           /\ i < j
                           /\ IsCreateInsert(q, i) /\ foldPayload(ms, c) \in q[i].quads
                           /\ IsDeleteOfDeletes(q, j) /\ ms[d].memberId \in q[j].subjects

\* Member k of the call has an rdf:type that is the target class of none of
\* the configured shapes.
TypeWithoutShape(k) ==
    /\ Len(call.memberShapes) > 0
    /\ TypeOfMember(k) # Undefined
    /\ ShapesFor(k) = {}

\* C37: a DELETE with configured shapes for a member whose rdf:type is the
\* target class of none of them ends in an error: no query is returned, and
\* no pattern at all, OPTIONAL or bare wildcard, is produced for that member.
C37_UnknownTypeIsAnError ==
    (call.fn = "DELETE" /\ result.done) =>
        \A k \in 1..Len(call.memberIRIs) :
            TypeWithoutShape(k) =>
                /\ result.err = "TypeError"
                /\ Len(result.value.whereBuilder) < k
                /\ Len(result.value.deleteBuilder) < k

C37_Witness ==
    /\ call.fn = "DELETE" /\ result.done /\ result.err = "TypeError"
    /\ Len(call.memberIRIs) = 2
    /\ ~TypeWithoutShape(1) /\ TypeWithoutShape(2)
    /\ Len(result.value.whereBuilder) = 1

\* The catch of part_002 and part_003 rethrows: no performance mode, or
\* failureIsFatal set.
FailureIsFatal == ~config.measurePerformance \/ config.failureIsFatal = "true"
RemoteFailed(k) == k \in 1..Len(log) /\ log[k].http = "failed"

\* C38 (part_002, part_003): a record whose remote execution failed fatally
\* has no text written to the writer, is the last record taken from the
\* stream and leaves the writer open, and that stays so; a record whose
\* remote execution failed non-fatally has its whole query written to the
\* writer before the next record is taken.
C38_FailureAndWriter ==
    /\ [](config.variant # "sparqlIngest" =>
            \A k \in 1..Len(log) :
               /\ (RemoteFailed(k) /\ FailureIsFatal) =>
                     /\ pc = "error"
                     /\ WrittenOf(k) = <<>>
                     /\ k = Len(log)
                     /\ ~writerClosed
               /\ (RemoteFailed(k) /\ ~FailureIsFatal /\ config.sparqlWriter /\ k < Len(log)) =>
                     WrittenOf(k) = writerTexts(config, log[k].query))
    /\ [][(config.variant # "sparqlIngest" /\ pc = "error") =>
             (pc' = "error" /\ UNCHANGED <<log, written, writerClosed>>)]_vars

C38_Witness ==
    /\ config.variant = "transform3" /\ config.sparqlWriter /\ config.forVirtuoso
    /\ Len(log) = 2
    /\ RemoteFailed(1) /\ ~FailureIsFatal
    /\ Len(WrittenOf(1)) = 2
    /\ RemoteFailed(2) /\ log[2].sent = 2
    /\ pc = "running"

C38_WitnessFatal ==
    /\ config.variant = "transform2" /\ config.sparqlWriter
    /\ Len(log) = 2 /\ log[1].http = "ok"
    /\ RemoteFailed(2) /\ FailureIsFatal /\ pc = "error"
    /\ WrittenOf(1) # <<>> /\ WrittenOf(2) = <<>>

\* The k-th request of the call got a non-2xx response.
RequestFailed(k) == k \in 1..Len(requests) /\ requests[k].status = "failed"

\* C39: when the statements of a call go out as several requests and the
\* k-th is answered non-2xx, doSPARQLRequest throws at once: the k-th is the
\* last request sent, now and ever after, and the requests 1..k-1 were
\* answered ok and stay as the server applied them.
C39_ThrowsAtFirstFailure ==
    /\ [](call.fn = "doSPARQLRequest" =>
            \A k \in 1..Len(requests) :
               RequestFailed(k) =>
                  /\ result.done /\ result.err = "HTTP request failed"
                  /\ k = Len(requests)
                  /\ \A i \in 1..(k - 1) : /\ requests[i].status = "ok"
                                           /\ requests[i].body = Queries[i])
    /\ [][(\E k \in 1..Len(requests) : RequestFailed(k)) =>
             (requests' = requests /\ result' = result)]_vars

C39_Witness ==
    /\ call.fn = "doSPARQLRequest" /\ call.forVirtuoso /\ call.overOneMB
    /\ Len(Queries) >= 3 /\ Len(requests) = 2
    /\ requests[1].status = "ok" /\ RequestFailed(2)
    /\ result.done /\ result.err = "HTTP request failed"

\* Entry k of the log issued a request, which failed without ending the run.
FailedNonFatally(k) ==
    /\ k \in 1..Len(log) /\ log[k].req # 0
    /\ requests[log[k].req].status = "failed"
    /\ pc # "error"

\* The requests issued with entry k of the log or after it.
RequestsSince(k) == { log[m].req : m \in k..Len(log) } \ {0}

\* The failed batch is kept: the entry after a non-fatal failure adds its
\* quads to the batch and one to the count, and sends all of it again.
ResentWithNext ==
    \A k \in 1..(Len(log) - 1) :
        (FailedNonFatally(k) /\ log[k].rec # 0) =>
            /\ log[k+1].batch = log[k].batch \o log[k+1].quads
            /\ log[k+1].count = log[k].count + (IF log[k+1].rec = 0 THEN 0 ELSE 1)
            /\ log[k+1].batch # <<>> =>
                  /\ log[k+1].req # 0
                  /\ requests[log[k+1].req].body = log[k+1].batch

\* Once a request issued with record k or after it has succeeded, the quads
\* of record k are in the body of a request that succeeded, at their place
\* among the quads of the records around it.
NoQuadLost ==
    \A k \in 1..Len(log) :
        (log[k].rec # 0 /\ \E j \in RequestsSince(k) : requests[j].status = "ok") =>
            \E j \in RequestsSince(k) : \E s \in 1..k : \E e \in k..Len(log) :
                /\ requests[j].status = "ok"
                /\ requests[j].body = quadsOfLog(SubSeq(log, s, e))

\* C40: Replication mode, non-fatal failure of the request for a full
\* batch: memberBatch and batchCount are left as they are (until the next
\* record comes), the quads of the failed batch are sent again together
\* with the next record, and no quad received is lost once a later request
\* succeeds.
C40_FailedBatchIsKept ==
    /\ [](ResentWithNext /\ NoQuadLost)
    /\ [][(pc = "sending" /\ pc' = "running" /\ requests'[Len(requests)].status = "failed")
             => (memberBatch' = memberBatch /\ batchCount' = batchCount
                 /\ memberBatch = requests[Len(requests)].body)]_vars

\* Batches of two: the request with records 1 and 2 fails, the request with
\* records 1 to 3 succeeds.
C40_Witness ==
    /\ batchSizeOf(config) = 2 /\ Len(log) = 3
    /\ FailedNonFatally(2) /\ log[2].quads # <<>> /\ log[1].quads # <<>>
    /\ log[3].req = 2 /\ requests[2].status = "ok"
    /\ requests[2].body = log[1].quads \o log[2].quads \o log[3].quads
    /\ memberBatch = <<>> /\ batchCount = 0

====
